---- MODULE Spec2Model ----
(***************************************************************************)
(* Model of the care-plan system: the risk-assessment engine               *)
(* (src/risk_assessment.py: the eight instrument scorers of                *)
(* RiskAssessmentCalculator, the aggregator calculate_all_assessments and  *)
(* the Markdown formatter), the document reducer                           *)
(* (src/structure_analyzer.py, as the analyze handler of src/main.py uses  *)
(* it), the daily-log extractor extract_daily_data of src/main.py, and the *)
(* handlers of the REST API (src/api/v1/endpoints.py) for care tasks,      *)
(* usage quota, care-plan history and shared dashboards over the rows of   *)
(* src/models.py.                                                          *)
(*                                                                         *)
(* Texts are TLA+ strings and are searched character by character, the way *)
(* Python's `in`, str.count, str.lower and str.split do.  An optional      *)
(* Python value (None or a value) is a sequence of length 0 or 1.  Dates   *)
(* are the number of weeks after the day of the call.  A number formatted  *)
(* as a float inside an evidence string keeps its format placeholder       *)
(* ({bmi:.1f}); the rest of the evidence text is the source's, with the    *)
(* sign for greater-or-equal written >=.                                   *)
(***************************************************************************)
EXTENDS Integers, Sequences, FiniteSets, TLC

VARIABLES
    care_plan_text,   \* argument care_plan_text: a string
    log_entries,      \* argument log_entries: a string
    weight_logs,      \* argument weight_logs: None or a list of numbers (kg)
    height,           \* argument height: None or a number (cm)
    resident_data,    \* argument resident_data: None or a dict
    report,           \* None, or the value returned by calculate_all_assessments
    scored,           \* None, or the outcome of the latest direct scorer call
    formatted,        \* None, or the outcome of formatting the report
    daily_log_content,    \* the daily log text: a string
    processed_daily_log,  \* None, or the log text the analyze handler goes on with
    called,           \* None, or the direct call made of a reducer function
    daily_data,       \* None, or the value returned by extract_daily_data
    now,              \* the clock of the server (datetime.utcnow)
    task,             \* None, or the CareTask row
    user,             \* None, or the User row
    resident,         \* None, or the Resident row with its CarePlanHistory rows
    link,             \* None, or the ShareableLink row
    requests,         \* the API requests in progress, by request
    responses         \* the responses sent so far, in the order sent

vars == <<care_plan_text, log_entries, weight_logs, height, resident_data,
          report, scored, formatted,
          daily_log_content, processed_daily_log, called, daily_data,
          now, task, user, resident, link, requests, responses>>

inputs == <<care_plan_text, log_entries, weight_logs, height, resident_data>>

\* the state of the risk-assessment calls
risk_vars == <<care_plan_text, log_entries, weight_logs, height, resident_data,
               report, scored, formatted>>

\* the state of the daily-log calls
log_vars == <<daily_log_content, processed_daily_log, called, daily_data>>

\* the state of the REST API: the clock, the database rows, the requests
api_vars == <<now, task, user, resident, link, requests, responses>>

----------------------------------------------------------------------------
(* Python values *)

None == <<>>

Some(v) == <<v>>

\* no risk-assessment call is made
RiskIdle ==
    /\ care_plan_text = "" /\ log_entries = ""
    /\ weight_logs = None /\ height = None /\ resident_data = None
    /\ report = None /\ scored = None /\ formatted = None

\* no daily log is processed
LogIdle ==
    /\ daily_log_content = "" /\ processed_daily_log = None
    /\ called = None /\ daily_data = None

\* the REST API is not in use: no rows, no requests
ApiIdle ==
    /\ now = 0
    /\ task = None /\ user = None /\ resident = None /\ link = None
    /\ requests = <<>> /\ responses = <<>>

\* Python truthiness of an optional number: None and 0 are false
TruthyNum(o) == o # None /\ o[1] # 0

\* Python truthiness of an optional list or dict: None and empty are false
TruthyColl(o) == o # None /\ o[1] # <<>>

Min(a, b) == IF a <= b THEN a ELSE b

Max(a, b) == IF a >= b THEN a ELSE b

RECURSIVE SumSeq(_)
SumSeq(s) == IF s = <<>> THEN 0 ELSE Head(s) + SumSeq(Tail(s))

----------------------------------------------------------------------------
(* Python string operations *)

UpperChars == "ABCDEFGHIJKLMNOPQRSTUVWXYZ"

LowerChars == "abcdefghijklmnopqrstuvwxyz"

CharAt(s, i) == SubSeq(s, i, i)

\* str.lower() of one character
LowerChar(c) ==
    IF \E i \in 1..26 : CharAt(UpperChars, i) = c
    THEN CharAt(LowerChars, CHOOSE i \in 1..26 : CharAt(UpperChars, i) = c)
    ELSE c

LowerAt(s, i) == LowerChar(CharAt(s, i))

RECURSIVE LowerRange(_, _, _)
\* the lower-cased characters lo..hi of s, by halving the range
LowerRange(s, lo, hi) ==
    IF lo > hi THEN ""
    ELSE IF lo = hi THEN LowerAt(s, lo)
    ELSE LET mid == (lo + hi) \div 2
         IN  LowerRange(s, lo, mid) \o LowerRange(s, mid + 1, hi)

\* s.lower()
Lower(s) == LowerRange(s, 1, Len(s))

\* kw in text
In(kw, text) ==
    \E i \in 1..(Len(text) - Len(kw) + 1) : SubSeq(text, i, i + Len(kw) - 1) = kw

\* any(kw in text for kw in kws)
AnyIn(kws, text) == \E k \in 1..Len(kws) : In(kws[k], text)

\* [kw for kw in kws if kw in text]
Found(kws, text) == SelectSeq(kws, LAMBDA kw : In(kw, text))

\* the positions from i on where kw occurs in text
Matches(text, kw, i) ==
    {j \in i..(Len(text) - Len(kw) + 1) : SubSeq(text, j, j + Len(kw) - 1) = kw}

RECURSIVE CountFrom(_, _, _)
\* count the leftmost occurrence from i on, then go on behind it
CountFrom(text, kw, i) ==
    LET ms == Matches(text, kw, i)
    IN  IF ms = {} THEN 0
        ELSE LET j == CHOOSE m \in ms : \A n \in ms : m <= n
             IN  1 + CountFrom(text, kw, j + Len(kw))

\* text.count(kw): the non-overlapping occurrences, left to right
Count(text, kw) == CountFrom(text, kw, 1)

IsSpace(c) == c \in {" ", "\n", "\t", "\r"}

\* the positions where a word of text starts
WordStarts(text) ==
    {i \in 1..Len(text) :
        ~IsSpace(CharAt(text, i)) /\ (i = 1 \/ IsSpace(CharAt(text, i - 1)))}

\* the word of text that starts at position i
WordAt(text, i) ==
    LET ends == {j \in i..Len(text) : j = Len(text) \/ IsSpace(CharAt(text, j + 1))}
    IN  SubSeq(text, i, CHOOSE j \in ends : \A k \in ends : j <= k)

\* text.split(): the maximal runs of non-whitespace, left to right
Split(text) ==
    LET starts == WordStarts(text)
    IN  [k \in 1..Cardinality(starts) |->
            WordAt(text, CHOOSE i \in starts :
                            Cardinality({j \in starts : j < i}) = k - 1)]

RECURSIVE Join(_, _)
\* sep.join(parts)
Join(sep, parts) ==
    IF parts = <<>> THEN ""
    ELSE IF Len(parts) = 1 THEN parts[1]
    ELSE parts[1] \o sep \o Join(sep, Tail(parts))

RECURSIVE JoinRange(_, _, _, _)
\* sep.join(parts[lo..hi]), by halving the range
JoinRange(sep, parts, lo, hi) ==
    IF lo > hi THEN ""
    ELSE IF lo = hi THEN parts[lo]
    ELSE LET mid == (lo + hi) \div 2
         IN  JoinRange(sep, parts, lo, mid) \o sep \o JoinRange(sep, parts, mid + 1, hi)

\* sep.join(parts) of a long list
JoinLines(sep, parts) == JoinRange(sep, parts, 1, Len(parts))

Digits == "0123456789"

RECURSIVE NatStr(_)
NatStr(n) ==
    IF n < 10 THEN CharAt(Digits, n + 1)
    ELSE NatStr(n \div 10) \o CharAt(Digits, (n % 10) + 1)

\* str(n) of an integer
Str(n) == IF n < 0 THEN "-" \o NatStr(0 - n) ELSE NatStr(n)

\* str.title(): the first letter of each run of letters is upper case, the
\* rest lower case
IsLetter(c) == \E i \in 1..26 : CharAt(UpperChars, i) = c \/ CharAt(LowerChars, i) = c

UpperChar(c) ==
    IF \E i \in 1..26 : CharAt(LowerChars, i) = c
    THEN CharAt(UpperChars, CHOOSE i \in 1..26 : CharAt(LowerChars, i) = c)
    ELSE c

TitleAt(s, i) ==
    LET c == CharAt(s, i)
    IN  IF ~IsLetter(c) THEN c
        ELSE IF i > 1 /\ IsLetter(CharAt(s, i - 1)) THEN LowerChar(c)
        ELSE UpperChar(c)

RECURSIVE TitleRange(_, _, _)
\* the title-cased characters lo..hi of s, by halving the range
TitleRange(s, lo, hi) ==
    IF lo > hi THEN ""
    ELSE IF lo = hi THEN TitleAt(s, lo)
    ELSE LET mid == (lo + hi) \div 2
         IN  TitleRange(s, lo, mid) \o TitleRange(s, mid + 1, hi)

\* s.title()
Title(s) == TitleRange(s, 1, Len(s))

----------------------------------------------------------------------------
(* The instrument scorers.  Each returns the dict its Python method returns. *)

medication_indicators ==
    <<"tablet", "mg", "medication", "drug", "pill", "capsule",
      "paracetamol", "aspirin", "warfarin", "metformin", "insulin">>

\* _count_medications: every occurrence of every indicator, halved, capped
\* at 10
_count_medications(text) ==
    LET text_lower == Lower(text)
        count == SumSeq([k \in 1..Len(medication_indicators) |->
                            Count(text_lower, medication_indicators[k])])
    IN  Min(count \div 2, 10)

_get_falls_recommendations(score) ==
    IF score >= 3 THEN
        <<"Implement comprehensive fall prevention measures",
          "Consider bed/chair alarms if appropriate",
          "Review medication for fall risk side effects",
          "Increase supervision during mobility",
          "Physiotherapy assessment for balance and strength">>
    ELSE IF score >= 2 THEN
        <<"Implement standard fall prevention measures",
          "Review medication regime",
          "Ensure clear walkways and good lighting",
          "Monitor during high-risk activities">>
    ELSE
        <<"Continue routine fall prevention measures",
          "Maintain awareness of fall risk factors">>

fall_keywords == <<"fall", "fell", "trip", "stumble", "slip", "tumble">>

disease_keywords == <<"dementia", "stroke", "parkinson", "alzheimer">>

balance_keywords == <<"balance", "unsteady", "dizzy", "vertigo", "unstable", "wobble">>

standing_keywords ==
    <<"difficulty standing", "cannot stand", "unable to rise", "help standing">>

bp_keywords == <<"blood pressure", "hypotension", "bp drop", "dizzy standing">>

\* The five scored sub-conditions of calculate_falls_screening, in order; each
\* is [found, evidence, missing]: found adds 1 point and the evidence entry,
\* otherwise the missing_data entry is added (the medication item adds an
\* evidence entry and no missing_data entry for a count of 1 to 3).
FallsItems(plan, log) ==
    LET combined_text == Lower(plan \o " " \o log)
        falls_found == Found(fall_keywords, combined_text)
        medication_count == _count_medications(plan)
        diseases_found == Found(disease_keywords, combined_text)
        balance_found == Found(balance_keywords, combined_text)
        mobility_found == Found(standing_keywords, combined_text)
    IN  << [found |-> falls_found # <<>>,
            evidence |-> <<"Fall history: Found keywords - " \o Join(", ", falls_found)>>,
            missing |-> <<"Falls history in past year - Manager must verify if resident has fallen in last 12 months">>],
           [found |-> medication_count >= 4,
            evidence |-> <<"Medications: " \o Str(medication_count) \o " prescribed (>=4 threshold met)">>,
            missing |-> IF medication_count > 0 THEN <<>>
                        ELSE <<"Complete medication list - Manager must provide current medication count">>,
            evidence_unscored |-> IF medication_count > 0
                                  THEN <<"Medications: Only " \o Str(medication_count) \o " identified (<4)">>
                                  ELSE <<>>],
           [found |-> diseases_found # <<>>,
            evidence |-> <<"Diagnosed condition: " \o Title(Join(", ", diseases_found))>>,
            missing |-> <<"Medical diagnosis confirmation - Manager must verify if resident has Dementia, Stroke, or Parkinson's">>],
           [found |-> balance_found # <<>>,
            evidence |-> <<"Balance problems: " \o Join(", ", balance_found)>>,
            missing |-> <<"Balance assessment - Manager must confirm if resident has balance issues">>],
           [found |-> mobility_found # <<>>,
            evidence |-> <<"Standing difficulty: " \o Join(", ", mobility_found)>>,
            missing |-> <<"Chair rise test - Manager must perform test: Can resident rise from knee-height chair without assistance?">>] >>

RECURSIVE FallsFold(_, _, _)
\* the statements of calculate_falls_screening that update score, evidence and
\* missing_data, one sub-condition after the other
FallsFold(items, i, acc) ==
    IF i > Len(items) THEN acc
    ELSE LET it == items[i]
         IN  FallsFold(items, i + 1,
                IF it.found
                THEN [acc EXCEPT !.score = @ + 1, !.evidence = @ \o it.evidence]
                ELSE [acc EXCEPT !.missing_data = @ \o it.missing,
                                 !.evidence = @ \o (IF "evidence_unscored" \in DOMAIN it
                                                    THEN it.evidence_unscored ELSE <<>>)])

FallsRiskLevel(score) ==
    IF score >= 3 THEN "High Risk"
    ELSE IF score = 2 THEN "Medium Risk"
    ELSE "Low Risk"

calculate_falls_screening(plan, log, rd) ==
    LET combined_text == Lower(plan \o " " \o log)
        acc == FallsFold(FallsItems(plan, log), 1,
                         [score |-> 0, evidence |-> <<>>, missing_data |-> <<>>])
        bp_found == Found(bp_keywords, combined_text)
        missing_data ==
            acc.missing_data \o
            (IF bp_found # <<>>
             THEN <<"Postural hypotension test - Manager must measure BP lying and standing (>20mmHg systolic or >10mmHg diastolic drop)">>
             ELSE <<"Postural hypotension assessment - Manager must conduct blood pressure measurements">>)
    IN  [tool_name |-> "Falls Screening",
         score |-> acc.score,
         max_score |-> 6,
         risk_level |-> FallsRiskLevel(acc.score),
         evidence |-> acc.evidence,
         missing_data |-> missing_data,
         recommendations |-> _get_falls_recommendations(acc.score),
         next_review_date |-> 1,
         calculation_note |-> "Score calculated from available evidence only. "
                              \o Str(Len(missing_data))
                              \o " items require manager verification for complete assessment."]

calculate_ppu(plan, log, rd) ==
    LET combined_text == Lower(plan \o " " \o log)
        mobility == AnyIn(<<"wheelchair", "bedbound", "immobile", "hoist", "assistance walking">>, combined_text)
        continence == AnyIn(<<"incontinent", "wet", "soiled", "catheter", "pad">>, combined_text)
        nutrition == AnyIn(<<"poor appetite", "not eating", "weight loss", "malnourished", "refusing food">>, combined_text)
        score == (IF mobility THEN 1 ELSE 0) + (IF continence THEN 1 ELSE 0)
                 + (IF nutrition THEN 1 ELSE 0)
    IN  [tool_name |-> "Preliminary Pressure Ulcer",
         score |-> score,
         max_score |-> 3,
         risk_level |-> IF score >= 1 THEN "Requires Full Assessment" ELSE "Low Risk",
         evidence |-> (IF mobility THEN <<"Mobility assistance required">> ELSE <<>>)
                      \o (IF continence THEN <<"Continence issues identified">> ELSE <<>>)
                      \o (IF nutrition THEN <<"Nutritional concerns identified">> ELSE <<>>),
         recommendations |-> IF score >= 1
                             THEN <<"Conduct full Waterlow pressure ulcer risk assessment",
                                    "Inspect skin condition">>
                             ELSE <<"Continue routine skin monitoring">>,
         next_review_date |-> 2]

_get_must_recommendations(score) ==
    IF score >= 2 THEN
        <<"Refer to dietitian/nutritionist",
          "Implement nutrition care plan",
          "Monitor weight weekly",
          "Consider nutritional supplements",
          "Document food and fluid intake">>
    ELSE IF score = 1 THEN
        <<"Monitor weight and intake",
          "Review dietary preferences",
          "Consider nutritional supplements">>
    ELSE
        <<"Continue routine nutrition monitoring",
          "Maintain balanced diet">>

\* bmi = weight / (height/100)**2 compared with num/den, in exact arithmetic
\* (height # 0): bmi < num/den
BmiLess(weight, h, num, den) == weight * 10000 * den < num * h * h

\* bmi <= num/den
BmiAtMost(weight, h, num, den) == weight * 10000 * den <= num * h * h

\* the points of the BMI branch: bmi < 18.5 -> 2, 18.5 <= bmi <= 20 -> 1, else 0
BmiPoints(weight, h) ==
    IF BmiLess(weight, h, 37, 2) THEN 2
    ELSE IF BmiAtMost(weight, h, 20, 1) THEN 1
    ELSE 0

\* weight_change = (first - last) / first * 100 for first > 0, compared in
\* exact arithmetic: > 10 -> 2, 5 <= weight_change <= 10 -> 1, else 0
WeightLossPoints(first, last) ==
    IF (first - last) * 100 > 10 * first THEN 2
    ELSE IF (first - last) * 100 >= 5 * first THEN 1
    ELSE 0

fasting_keywords == <<"nil by mouth", "nbm", "fasting", "no oral intake">>

illness_keywords == <<"acute", "unwell", "hospital", "infection", "fever">>

\* calculate_must raises ZeroDivisionError when at least two weights are
\* recorded and the first is 0
MustRaises(wl) == TruthyColl(wl) /\ Len(wl[1]) >= 2 /\ wl[1][1] = 0

calculate_must(plan, log, wl, h) ==
    LET combined_text == Lower(plan \o " " \o log)
        has_bmi == TruthyColl(wl) /\ TruthyNum(h) /\ Len(wl[1]) > 0
        latest_weight == wl[1][Len(wl[1])]
        bmi_points == IF has_bmi THEN BmiPoints(latest_weight, h[1]) ELSE 0
        bmi_evidence ==
            IF ~has_bmi THEN <<>>
            ELSE IF bmi_points = 2 THEN <<"BMI: {bmi:.1f} (<18.5) = 2 points">>
            ELSE IF bmi_points = 1 THEN <<"BMI: {bmi:.1f} (18.5-20) = 1 point">>
            ELSE <<"BMI: {bmi:.1f} (>20) = 0 points">>
        bmi_missing ==
            IF has_bmi THEN <<>>
            ELSE <<"BMI calculation - Manager must provide current weight (kg) and height (cm)">>
        has_loss == TruthyColl(wl) /\ Len(wl[1]) >= 2
        loss_points == IF has_loss THEN WeightLossPoints(wl[1][1], latest_weight) ELSE 0
        loss_evidence ==
            IF ~has_loss THEN <<>>
            ELSE IF loss_points = 2 THEN <<"Weight loss: {weight_change:.1f}% (>10%) = 2 points">>
            ELSE IF loss_points = 1 THEN <<"Weight loss: {weight_change:.1f}% (5-10%) = 1 point">>
            ELSE <<"Weight loss: {weight_change:.1f}% (<5%) = 0 points">>
        loss_missing ==
            IF has_loss THEN <<>>
            ELSE <<"Weight loss calculation - Manager must provide weight records from 3-6 months ago">>
        fasting_found == AnyIn(fasting_keywords, combined_text)
        illness_found == AnyIn(illness_keywords, combined_text)
        acute_points == IF fasting_found /\ illness_found THEN 2 ELSE 0
        acute_evidence ==
            IF fasting_found /\ illness_found
            THEN <<"Acute illness with no nutritional intake = 2 points">> ELSE <<>>
        acute_missing ==
            IF fasting_found /\ illness_found THEN <<>>
            ELSE IF fasting_found \/ illness_found
            THEN <<"Acute illness assessment - Manager must confirm if resident is acutely ill AND has had no nutritional intake for 5+ days">>
            ELSE <<"Acute illness and fasting status - Manager must assess current illness status and nutritional intake">>
        score == bmi_points + loss_points + acute_points
        missing_data == bmi_missing \o loss_missing \o acute_missing
    IN  [tool_name |-> "MUST Nutrition Screening",
         score |-> score,
         max_score |-> 6,
         risk_level |-> IF score >= 2 THEN "High Risk"
                        ELSE IF score = 1 THEN "Medium Risk"
                        ELSE "Low Risk",
         evidence |-> bmi_evidence \o loss_evidence \o acute_evidence,
         missing_data |-> missing_data,
         recommendations |-> _get_must_recommendations(score),
         next_review_date |-> 1,
         calculation_note |-> "MUST score based on available data only. "
                              \o Str(Len(missing_data))
                              \o " components require manager input for complete assessment."]

_get_waterlow_recommendations(score) ==
    IF score >= 20 THEN
        <<"Implement maximum pressure relief measures",
          "2-hourly repositioning regime",
          "Pressure-relieving mattress and cushions",
          "Daily skin inspection",
          "Involve tissue viability nurse">>
    ELSE IF score >= 15 THEN
        <<"Implement pressure relief measures",
          "4-hourly repositioning",
          "Pressure-relieving equipment",
          "Regular skin inspection">>
    ELSE IF score >= 10 THEN
        <<"Regular repositioning",
          "Monitor skin condition",
          "Consider pressure-relieving aids">>
    ELSE
        <<"Continue routine skin care",
          "Monitor for changes in condition">>

skin_keywords == <<"bruising", "discoloured", "mottled", "broken skin", "red", "sore">>

WaterlowRiskLevel(score) ==
    IF score >= 20 THEN "Very High Risk"
    ELSE IF score >= 15 THEN "High Risk"
    ELSE IF score >= 10 THEN "Medium Risk"
    ELSE "Low Risk"

calculate_waterlow(plan, log, rd) ==
    LET combined_text == Lower(plan \o " " \o log)
        has_age == TruthyColl(rd) /\ "age" \in DOMAIN rd[1]
        age == rd[1].age
        age_points == IF ~has_age THEN 0
                      ELSE IF age >= 81 THEN 5
                      ELSE IF age >= 75 THEN 4
                      ELSE IF age >= 65 THEN 3
                      ELSE 0
        age_evidence ==
            IF age_points = 0 THEN <<>>
            ELSE <<"Age " \o Str(age) \o " years (" \o Str(age_points) \o " points)">>
        has_gender == TruthyColl(rd) /\ "gender" \in DOMAIN rd[1]
        female == Lower(rd[1].gender) = "female"
        gender_points == IF ~has_gender THEN 0 ELSE IF female THEN 2 ELSE 1
        gender_evidence ==
            IF ~has_gender THEN <<>>
            ELSE IF female THEN <<"Female gender (2 points)">>
            ELSE <<"Male gender (1 point)">>
        skin == AnyIn(skin_keywords, combined_text)
        incontinent == In("incontinent", combined_text)
        doubly == In("faeces", combined_text) \/ In("bowel", combined_text)
        continence_points == IF ~incontinent THEN 0 ELSE IF doubly THEN 3 ELSE 1
        continence_evidence ==
            IF ~incontinent THEN <<>>
            ELSE IF doubly THEN <<"Doubly incontinent (3 points)">>
            ELSE <<"Urine incontinence (1 point)">>
        bedbound == AnyIn(<<"bedbound", "chair bound", "immobile">>, combined_text)
        words == Split(combined_text)
        assisted == \E k \in 1..Len(words) :
                        words[k] \in {"wheelchair", "walking aid", "assistance"}
        mobility_points == IF bedbound THEN 4 ELSE IF assisted THEN 3 ELSE 0
        mobility_evidence ==
            IF bedbound THEN <<"Restricted mobility/bedbound">>
            ELSE IF assisted THEN <<"Restricted activity">>
            ELSE <<>>
        nutrition == AnyIn(<<"poor appetite", "weight loss", "not eating", "malnourished">>, combined_text)
        score == age_points + gender_points + (IF skin THEN 2 ELSE 0)
                 + continence_points + mobility_points + (IF nutrition THEN 1 ELSE 0)
    IN  [tool_name |-> "Waterlow Pressure Ulcer Assessment",
         score |-> score,
         max_score |-> "Variable",
         risk_level |-> WaterlowRiskLevel(score),
         evidence |-> age_evidence \o gender_evidence
                      \o (IF skin THEN <<"Skin discoloration/bruising identified">> ELSE <<>>)
                      \o continence_evidence \o mobility_evidence
                      \o (IF nutrition THEN <<"Poor nutrition/appetite">> ELSE <<>>),
         recommendations |-> _get_waterlow_recommendations(score),
         next_review_date |-> 4]

_get_pain_recommendations(score) ==
    IF score >= 14 THEN
        <<"Urgent medical review for pain management",
          "Consider strong analgesics",
          "Regular pain assessment",
          "Non-pharmacological comfort measures">>
    ELSE IF score >= 8 THEN
        <<"Medical review for pain management",
          "Regular analgesics as prescribed",
          "Monitor effectiveness of pain relief">>
    ELSE IF score >= 3 THEN
        <<"Monitor for pain signs",
          "PRN analgesics as needed",
          "Comfort measures">>
    ELSE
        <<"Continue routine comfort care",
          "Monitor for changes">>

\* the score of calculate_abbey_pain with a matched group counted as severe
AbbeyScore_Severe(vocal, facial, body, behaviour, pain) ==
    (IF vocal THEN 3 ELSE 0) + (IF facial THEN 3 ELSE 0)
    + (IF body THEN 3 ELSE 0) + (IF behaviour THEN 3 ELSE 0)
    + (IF pain THEN 1 ELSE 0)

\* the score of calculate_abbey_pain: 2 for each matched group, 1 for a pain
\* keyword
AbbeyScore(vocal, facial, body, behaviour, pain) ==
    (IF vocal THEN 2 ELSE 0) + (IF facial THEN 2 ELSE 0)
    + (IF body THEN 2 ELSE 0) + (IF behaviour THEN 2 ELSE 0)
    + (IF pain THEN 1 ELSE 0)

calculate_abbey_pain(plan, log, rd) ==
    LET combined_text == Lower(plan \o " " \o log)
        vocal == AnyIn(<<"crying", "moaning", "groaning", "shouting", "calling out">>, combined_text)
        facial == AnyIn(<<"grimacing", "frowning", "tense", "distressed", "wincing">>, combined_text)
        body == AnyIn(<<"restless", "fidgeting", "guarding", "withdrawn", "agitated">>, combined_text)
        behaviour == AnyIn(<<"confused", "refusing", "aggressive", "pattern change">>, combined_text)
        pain == AnyIn(<<"pain", "discomfort", "sore", "ache", "hurts", "paracetamol", "analgesic">>, combined_text)
        score == AbbeyScore(vocal, facial, body, behaviour, pain)
    IN  [tool_name |-> "Abbey Pain Scale",
         score |-> score,
         max_score |-> 18,
         risk_level |-> IF score >= 14 THEN "Severe Pain"
                        ELSE IF score >= 8 THEN "Moderate Pain"
                        ELSE IF score >= 3 THEN "Mild Pain"
                        ELSE "No Pain to Mild Pain",
         evidence |-> (IF vocal THEN <<"Vocalisation of pain identified">> ELSE <<>>)
                      \o (IF facial THEN <<"Facial expressions of pain">> ELSE <<>>)
                      \o (IF body THEN <<"Body language changes indicating pain">> ELSE <<>>)
                      \o (IF behaviour THEN <<"Behavioural changes noted">> ELSE <<>>)
                      \o (IF pain THEN <<"Pain or discomfort documented">> ELSE <<>>),
         recommendations |-> _get_pain_recommendations(score),
         next_review_date |-> 4]

_get_depression_recommendations(score) ==
    IF score >= 18 THEN
        <<"Urgent psychiatric/GP review",
          "Consider antidepressant medication",
          "Implement depression care plan",
          "Increase social interaction and activities">>
    ELSE IF score >= 10 THEN
        <<"Medical review for possible depression",
          "Monitor mood and behaviour",
          "Encourage social activities",
          "Consider counselling/therapy">>
    ELSE
        <<"Continue routine emotional support",
          "Monitor for mood changes">>

\* the score of calculate_cornell_depression without the caps per group
CornellScore_Uncapped(mood_count, behaviour_count, physical_count, sleep) ==
    mood_count * 2 + behaviour_count * 2 + physical_count * 2
    + (IF sleep THEN 4 ELSE 0)

\* the score of calculate_cornell_depression from the counts of the groups
CornellScore(mood_count, behaviour_count, physical_count, sleep) ==
    (IF mood_count > 0 THEN Min(mood_count * 2, 8) ELSE 0)
    + (IF behaviour_count > 0 THEN Min(behaviour_count * 2, 8) ELSE 0)
    + (IF physical_count > 0 THEN Min(physical_count * 2, 6) ELSE 0)
    + (IF sleep THEN 4 ELSE 0)

calculate_cornell_depression(plan, log, rd) ==
    LET combined_text == Lower(plan \o " " \o log)
        mood_count == Len(Found(<<"anxious", "sad", "tearful", "irritable", "worried">>, combined_text))
        behaviour_count == Len(Found(<<"agitated", "slow", "withdrawn", "lost interest">>, combined_text))
        physical_count == Len(Found(<<"appetite loss", "weight loss", "tired", "fatigue", "no energy">>, combined_text))
        sleep == AnyIn(<<"sleep", "insomnia", "waking", "restless night">>, combined_text)
        score == CornellScore(mood_count, behaviour_count, physical_count, sleep)
    IN  [tool_name |-> "Cornell Depression Scale",
         score |-> score,
         max_score |-> 38,
         risk_level |-> IF score >= 18 THEN "Definite Depression"
                        ELSE IF score >= 10 THEN "Probable Depression"
                        ELSE "Low Risk",
         evidence |-> (IF mood_count > 0
                       THEN <<"Mood-related symptoms identified (" \o Str(mood_count) \o " indicators)">>
                       ELSE <<>>)
                      \o (IF behaviour_count > 0
                          THEN <<"Behavioural disturbances noted (" \o Str(behaviour_count) \o " indicators)">>
                          ELSE <<>>)
                      \o (IF physical_count > 0
                          THEN <<"Physical symptoms of depression (" \o Str(physical_count) \o " indicators)">>
                          ELSE <<>>)
                      \o (IF sleep THEN <<"Sleep disturbances identified">> ELSE <<>>),
         recommendations |-> _get_depression_recommendations(score),
         next_review_date |-> 12]

_get_handling_recommendations(score) ==
    IF score >= 3 THEN
        <<"Two staff required for all transfers",
          "Use appropriate lifting equipment",
          "Regular manual handling training for staff",
          "Risk assessment before each move">>
    ELSE IF score >= 2 THEN
        <<"One staff member assistance required",
          "Use walking aids as appropriate",
          "Monitor during mobility">>
    ELSE
        <<"Encourage independence",
          "Monitor mobility levels">>

calculate_moving_handling(plan, log, rd) ==
    LET combined_text == Lower(plan \o " " \o log)
        standing == IF AnyIn(<<"cannot stand", "unable to stand">>, combined_text) THEN 3
                    ELSE IF In("help standing", combined_text)
                            \/ In("assistance standing", combined_text) THEN 2
                    ELSE 0
        walking == IF In("wheelchair", combined_text) THEN 3
                   ELSE IF AnyIn(<<"walking aid", "zimmer", "walker">>, combined_text) THEN 2
                   ELSE 0
        max_score == Max(Max(standing, walking), Max(0, 0))
    IN  [tool_name |-> "Moving and Handling Assessment",
         score |-> max_score,
         max_score |-> 5,
         risk_level |-> IF max_score >= 3 THEN "High Risk - 2 Staff Required"
                        ELSE IF max_score >= 2 THEN "Medium Risk - 1 Staff Required"
                        ELSE "Low Risk - Independent",
         evidence |-> (IF standing = 3 THEN <<"Unable to stand independently">>
                       ELSE IF standing = 2 THEN <<"Requires assistance to stand">>
                       ELSE <<>>)
                      \o (IF walking = 3 THEN <<"Wheelchair dependent">>
                          ELSE IF walking = 2 THEN <<"Uses walking aids">>
                          ELSE <<>>),
         recommendations |-> _get_handling_recommendations(max_score),
         next_review_date |-> 24]

_get_peep_recommendations(score) ==
    IF score = 4 THEN
        <<"Requires evacuation chair and two staff",
          "Practice evacuation procedures regularly",
          "Ensure staff know evacuation route",
          "Consider refuge area if needed">>
    ELSE IF score = 3 THEN
        <<"Requires staff assistance to evacuate",
          "Verbal prompting and guidance needed",
          "Practice evacuation procedures">>
    ELSE IF score = 2 THEN
        <<"May need verbal prompting",
          "Monitor during evacuation drills">>
    ELSE
        <<"Can evacuate independently",
          "Include in general evacuation procedures">>

peep_risk_levels == <<"Low Risk", "Medium Risk", "High Risk", "Severe Risk">>

\* the score of calculate_peep with the lowest tier found deciding
PeepScore_LowestTier(combined_text) ==
    IF AnyIn(<<"walking aid", "slow mobility">>, combined_text) THEN 2
    ELSE IF AnyIn(<<"confusion", "dementia", "cognitive">>, combined_text) THEN 3
    ELSE IF AnyIn(<<"wheelchair", "bedbound", "immobile">>, combined_text) THEN 4
    ELSE 1

\* the score of calculate_peep: the if/elif chain over the keyword tiers
PeepScore(combined_text) ==
    IF AnyIn(<<"wheelchair", "bedbound", "immobile">>, combined_text) THEN 4
    ELSE IF AnyIn(<<"confusion", "dementia", "cognitive">>, combined_text) THEN 3
    ELSE IF AnyIn(<<"walking aid", "slow mobility">>, combined_text) THEN 2
    ELSE 1

calculate_peep(plan, log, rd) ==
    LET combined_text == Lower(plan \o " " \o log)
        score == PeepScore(combined_text)
    IN  [tool_name |-> "Personal Emergency Evacuation Plan",
         score |-> score,
         max_score |-> 4,
         risk_level |-> peep_risk_levels[score],
         evidence |-> IF score = 4 THEN <<"Cannot self-evacuate - requires equipment and multiple staff">>
                      ELSE IF score = 3 THEN <<"May require assistance and guidance to evacuate">>
                      ELSE IF score = 2 THEN <<"May need verbal prompting or some assistance">>
                      ELSE <<"Appears able to evacuate independently">>,
         recommendations |-> _get_peep_recommendations(score),
         next_review_date |-> 24]

----------------------------------------------------------------------------
(* The aggregator: standard forms, item detection, form scoring *)

\* the keys of self.assessment_tools, in declaration order
assessment_tools ==
    <<"falls_screening", "pressure_ulcer_ppu", "must_nutrition", "waterlow",
      "abbey_pain", "cornell_depression", "moving_handling", "peep">>

\* the outcome of a call: a returned value or a raised exception
Ok(v) == [raised |-> FALSE, value |-> v]

Raise(e) == [raised |-> TRUE, exception |-> e]

\* dict.get(key, default)
Get(d, key, default) == IF key \in DOMAIN d THEN d[key] ELSE default

Item(id, name, range) ==
    [id |-> id, name |-> name, score_range |-> range, ai_value |-> None,
     manager_input_required |-> TRUE]

forms ==
    [falls_screening |->
        [tool_name |-> "Falls Screening",
         max_score |-> 6,
         formula |-> "Falls History(0-1) + Medications>=4(0-1) + Diagnosis(0-1) + Balance Issues(0-1) + Chair Rise(0-1) + Postural Hypotension(0-1)",
         items |-> <<Item("falls_history", "Falls history in past year", "0-1"),
                     Item("medications", "Daily medications >=4", "0-1"),
                     Item("diagnosis", "Dementia/Stroke/Parkinson's diagnosis", "0-1"),
                     Item("balance", "Balance problems", "0-1"),
                     Item("chair_rise", "Chair rise test (unable to rise)", "0-1"),
                     Item("postural_bp", "Postural hypotension (optional)", "0-1")>>],
     must_nutrition |->
        [tool_name |-> "MUST Nutrition Screening",
         max_score |-> 6,
         formula |-> "BMI Score(0-2) + Weight Loss(0-2) + Acute Illness Fasting(0-2)",
         items |-> <<Item("bmi", "BMI calculation", "0-2"),
                     Item("weight_loss", "Unplanned weight loss 3-6 months", "0-2"),
                     Item("acute_illness", "Acute illness with no intake 5+ days", "0-2")>>],
     waterlow |->
        [tool_name |-> "Waterlow Pressure Ulcer Assessment",
         max_score |-> "Variable",
         formula |-> "Age + Gender + BMI + Skin + Mobility + Nutrition + Continence + Special Conditions",
         items |-> <<Item("age", "Age scoring", "1-5"),
                     Item("gender", "Gender", "1-2"),
                     Item("skin_condition", "Skin type/condition", "0-2"),
                     Item("mobility", "Mobility level", "0-4"),
                     Item("continence", "Continence status", "0-3"),
                     Item("nutrition", "Nutrition status", "0-1")>>],
     abbey_pain |->
        [tool_name |-> "Abbey Pain Scale",
         max_score |-> 18,
         formula |-> "Vocalisation(0-3) + Facial(0-3) + Body Language(0-3) + Behavioural(0-3) + Physiological(0-3) + Physical(0-3)",
         items |-> <<Item("vocalisation", "Vocalisation (crying, moaning, groaning)", "0-3"),
                     Item("facial", "Facial expression (grimacing, frowning)", "0-3"),
                     Item("body_language", "Body language changes (restless, guarding)", "0-3"),
                     Item("behavioural", "Behavioural changes (confusion, refusal)", "0-3"),
                     Item("physiological", "Physiological changes (BP, pulse, temp)", "0-3"),
                     Item("physical", "Physical changes (skin tears, pressure areas)", "0-3")>>],
     cornell_depression |->
        [tool_name |-> "Cornell Depression Scale",
         max_score |-> 38,
         formula |-> "Mood Signs(0-8) + Behavioural(0-8) + Physical(0-6) + Cyclic Functions(0-8) + Ideational(0-8)",
         items |-> <<Item("mood_signs", "Mood-related signs (anxiety, sadness)", "0-8"),
                     Item("behavioural_dist", "Behavioural disturbance (agitation, retardation)", "0-8"),
                     Item("physical_signs", "Physical signs (appetite, weight, energy)", "0-6"),
                     Item("cyclic_functions", "Sleep and cyclic functions", "0-8"),
                     Item("ideational", "Ideational disturbance (suicide, pessimism)", "0-8")>>],
     moving_handling |->
        [tool_name |-> "Moving and Handling Assessment",
         max_score |-> 5,
         formula |-> "Maximum risk level across all activities (Standing, Walking, Transferring, Personal Care)",
         items |-> <<Item("standing", "Standing ability", "0-5"),
                     Item("walking", "Walking ability", "0-5"),
                     Item("transferring", "Transferring ability", "0-5"),
                     Item("personal_care", "Personal care activities", "0-5")>>],
     peep |->
        [tool_name |-> "Personal Emergency Evacuation Plan",
         max_score |-> 4,
         formula |-> "Single risk level assessment (1=Low, 2=Medium, 3=High, 4=Severe)",
         items |-> <<Item("evacuation_ability", "Evacuation ability assessment", "1-4")>>]]

\* forms.get(tool_name, {}): a fresh form, or the empty dict for a name that
\* has no form
_create_standard_form(tool_name) == Get(forms, tool_name, <<>>)

detection_rules ==
    [falls_history |->
        [keywords |-> <<"fall", "fell", "trip", "stumble", "slip", "tumble">>,
         score_if_found |-> Some(1), score_if_not_found |-> None],
     medications |->
        [keywords |-> <<"tablet", "mg", "medication", "drug", "pill", "capsule">>,
         count_based |-> TRUE, threshold |-> 4,
         score_if_above |-> Some(1), score_if_below |-> None],
     diagnosis |->
        [keywords |-> <<"dementia", "stroke", "parkinson", "alzheimer">>,
         score_if_found |-> Some(1), score_if_not_found |-> None],
     balance |->
        [keywords |-> <<"balance", "unsteady", "dizzy", "vertigo", "unstable", "wobble">>,
         score_if_found |-> Some(1), score_if_not_found |-> None],
     chair_rise |->
        [keywords |-> <<"difficulty standing", "cannot stand", "unable to rise", "help standing">>,
         score_if_found |-> Some(1), score_if_not_found |-> None],
     bmi |->
        [calculation |-> TRUE, requires_weight_height |-> TRUE],
     vocalisation |->
        [keywords |-> <<"crying", "moaning", "groaning", "shouting", "calling out">>,
         score_scale |-> <<0, 1, 2, 3>>, default |-> None]]

\* repr of a list of strings: ['a', 'b']
ListRepr(strs) == "[" \o Join(", ", [k \in 1..Len(strs) |-> "'" \o strs[k] \o "'"]) \o "]"

Detected(value, confidence, evidence) ==
    [value |-> value, confidence |-> confidence, evidence |-> evidence]

\* DetectBmi with a missing weight or height scored as 0 points
DetectBmi_ZeroWhenMissing(wl, h) ==
    IF TruthyColl(wl) /\ TruthyNum(h) /\ Len(wl[1]) > 0
    THEN Detected(Some(BmiPoints(wl[1][Len(wl[1])], h[1])), "high",
                  "BMI calculated as {bmi:.1f}")
    ELSE Detected(Some(0), "low", "Missing weight or height data for BMI calculation")

\* the BMI branch of _ai_detect_item_value
DetectBmi(wl, h) ==
    IF TruthyColl(wl) /\ TruthyNum(h) /\ Len(wl[1]) > 0
    THEN LET latest_weight == wl[1][Len(wl[1])]
             points == BmiPoints(latest_weight, h[1])
         IN  IF points = 2
             THEN Detected(Some(2), "high",
                           "BMI calculated as {bmi:.1f} from weight " \o Str(latest_weight)
                           \o "kg and height " \o Str(h[1]) \o "cm")
             ELSE Detected(Some(points), "high", "BMI calculated as {bmi:.1f}")
    ELSE Detected(None, "low", "Missing weight or height data for BMI calculation")

\* the keyword branch of _ai_detect_item_value
DetectKeywords(rule, combined_text) ==
    LET keywords_found == Found(rule.keywords, combined_text)
    IN  IF Get(rule, "count_based", FALSE)
        THEN LET count == SumSeq([k \in 1..Len(rule.keywords) |->
                                     Count(combined_text, rule.keywords[k])])
             IN  IF count >= Get(rule, "threshold", 1)
                 THEN Detected(Get(rule, "score_if_above", None), "medium",
                               "Found " \o Str(count) \o " medication references: "
                               \o ListRepr(keywords_found))
                 ELSE Detected(Get(rule, "score_if_below", None), "low",
                               "Only found " \o Str(count)
                               \o " medication references (threshold: "
                               \o Str(Get(rule, "threshold", 1)) \o ")")
        ELSE IF keywords_found # <<>>
             THEN Detected(Get(rule, "score_if_found", None), "medium",
                           "Keywords found: " \o Join(", ", keywords_found))
             ELSE Detected(Get(rule, "score_if_not_found", None), "low",
                           "No relevant keywords found in care plan/logs")

_ai_detect_item_value(item_id, combined_text, wl, h, rd) ==
    LET rule == Get(detection_rules, item_id, <<>>)
    IN  IF DOMAIN rule = {}
        THEN Detected(None, "low", "No detection rule defined")
        ELSE IF Get(rule, "calculation", FALSE) /\ Get(rule, "requires_weight_height", FALSE)
        THEN DetectBmi(wl, h)
        ELSE IF "keywords" \in DOMAIN rule
        THEN DetectKeywords(rule, combined_text)
        ELSE Detected(None, "low", "No detection method available")

\* the body of the loop of _fill_form_with_ai_data, for one item
FillItem(item, combined_text, wl, h, rd) ==
    LET ai_result == _ai_detect_item_value(item.id, combined_text, wl, h, rd)
    IN  [id |-> item.id, name |-> item.name, score_range |-> item.score_range,
         ai_value |-> ai_result.value,
         ai_confidence |-> ai_result.confidence,
         ai_evidence |-> ai_result.evidence,
         manager_input_required |-> (ai_result.value = None)]

\* form['items'] of a dict without that key raises KeyError
_fill_form_with_ai_data(form, plan, log, wl, h, rd) ==
    LET combined_text == Lower(plan \o " " \o log)
    IN  IF "items" \notin DOMAIN form
        THEN Raise("'items'")
        ELSE Ok([form EXCEPT !.items =
                    [k \in 1..Len(form.items) |->
                        FillItem(form.items[k], combined_text, wl, h, rd)]])

RECURSIVE ScoreItems(_, _, _)
\* the loop of _calculate_score_from_form
ScoreItems(items, i, acc) ==
    IF i > Len(items) THEN acc
    ELSE ScoreItems(items, i + 1,
            IF items[i].ai_value # None
            THEN [acc EXCEPT !.total_score = @ + items[i].ai_value[1],
                             !.ai_filled_count = @ + 1]
            ELSE [acc EXCEPT !.missing_count = @ + 1])

\* _calculate_score_from_form with a null item counted as a filled 0
_calculate_score_from_form_NullAsZero(tool_name, form) ==
    [total_score |-> SumSeq([k \in 1..Len(form.items) |->
                                IF form.items[k].ai_value # None
                                THEN form.items[k].ai_value[1] ELSE 0]),
     ai_filled_count |-> Len(form.items),
     missing_count |-> 0]

_calculate_score_from_form(tool_name, form) ==
    ScoreItems(form.items, 1,
               [total_score |-> 0, ai_filled_count |-> 0, missing_count |-> 0])

falls_risk_levels ==
    <<"Low Risk", "Low Risk", "Medium Risk", "High Risk", "High Risk",
      "High Risk", "High Risk">>

must_risk_levels ==
    <<"Low Risk", "Medium Risk", "High Risk", "High Risk", "High Risk",
      "High Risk", "High Risk">>

abbey_risk_levels ==
    <<"No Pain", "No Pain", "No Pain", "Mild Pain", "Mild Pain", "Mild Pain",
      "Mild Pain", "Mild Pain", "Moderate Pain", "Moderate Pain",
      "Moderate Pain", "Moderate Pain", "Moderate Pain", "Moderate Pain",
      "Severe Pain", "Severe Pain", "Severe Pain", "Severe Pain", "Severe Pain">>

\* the tables of _determine_risk_level; the entry of score s is at index s + 1
risk_levels ==
    [falls_screening |-> falls_risk_levels,
     must_nutrition |-> must_risk_levels,
     abbey_pain |-> abbey_risk_levels]

_determine_risk_level(tool_name, score) ==
    IF tool_name \in DOMAIN risk_levels
    THEN (IF score + 1 \in DOMAIN risk_levels[tool_name]
          THEN risk_levels[tool_name][score + 1]
          ELSE "Medium Risk")
    ELSE IF score = 0 THEN "Low Risk"
    ELSE IF score <= 2 THEN "Medium Risk"
    ELSE "High Risk"

intervals ==
    [falls_screening |-> 1, must_nutrition |-> 1, waterlow |-> 4,
     abbey_pain |-> 4, cornell_depression |-> 12, moving_handling |-> 24,
     peep |-> 24]

_get_review_interval(tool_name) == Get(intervals, tool_name, 4)

\* 'high' in risk_level.lower() or 'severe' in risk_level.lower()
IsHighLevel(risk_level) ==
    In("high", Lower(risk_level)) \/ In("severe", Lower(risk_level))

\* 'medium' in risk_level.lower() or 'moderate' in risk_level.lower()
IsMediumLevel(risk_level) ==
    In("medium", Lower(risk_level)) \/ In("moderate", Lower(risk_level))

\* UpdateSummary with the alert raised without the check of the high level
UpdateSummary_AlertAnyLevel(summary, tool_name, display_name, total_score, risk_level) ==
    LET alerted ==
            [summary EXCEPT
                !.priority_alerts =
                    IF total_score > 0
                    THEN Append(@, [tool |-> tool_name,
                                    score |-> total_score,
                                    risk_level |-> risk_level,
                                    alert |-> "HIGH RISK: " \o display_name
                                              \o " score " \o Str(total_score)])
                    ELSE @]
    IN  IF IsHighLevel(risk_level)
        THEN [alerted EXCEPT !.high_risk_count = @ + 1]
        ELSE IF IsMediumLevel(risk_level)
        THEN [alerted EXCEPT !.medium_risk_count = @ + 1]
        ELSE [alerted EXCEPT !.low_risk_count = @ + 1]

\* the summary update of calculate_all_assessments for one assessed tool
UpdateSummary(summary, tool_name, display_name, total_score, risk_level) ==
    IF IsHighLevel(risk_level)
    THEN [summary EXCEPT
            !.high_risk_count = @ + 1,
            !.priority_alerts =
                IF total_score > 0
                THEN Append(@, [tool |-> tool_name,
                                score |-> total_score,
                                risk_level |-> risk_level,
                                alert |-> "HIGH RISK: " \o display_name
                                          \o " score " \o Str(total_score)])
                ELSE @]
    ELSE IF IsMediumLevel(risk_level)
    THEN [summary EXCEPT !.medium_risk_count = @ + 1]
    ELSE [summary EXCEPT !.low_risk_count = @ + 1]

\* the except branch of calculate_all_assessments
ErrorResult(e) ==
    [error |-> "Form creation error: " \o e,
     score |-> 0,
     risk_level |-> "Unable to assess"]

\* the try block of calculate_all_assessments for one tool: the results after
\* it, or the exception it raises
TryTool(results, tool_name, plan, log, wl, h, rd) ==
    LET form == _create_standard_form(tool_name)
        filled == IF tool_name = "must_nutrition"
                  THEN _fill_form_with_ai_data(form, plan, log, wl, h, rd)
                  ELSE _fill_form_with_ai_data(form, plan, log, None, None, rd)
    IN  IF filled.raised THEN filled
        ELSE LET filled_form == filled.value
                 calculated_score == _calculate_score_from_form(tool_name, filled_form)
                 risk_level == _determine_risk_level(tool_name, calculated_score.total_score)
                 entry == [tool_name |-> filled_form.tool_name,
                           form_items |-> filled_form.items,
                           score |-> calculated_score.total_score,
                           max_score |-> filled_form.max_score,
                           risk_level |-> risk_level,
                           ai_filled_items |-> calculated_score.ai_filled_count,
                           manager_required_items |-> calculated_score.missing_count,
                           calculation_formula |-> filled_form.formula,
                           next_review_date |-> _get_review_interval(tool_name)]
             IN  Ok([results EXCEPT
                        !.assessments = (tool_name :> entry) @@ @,
                        !.summary = UpdateSummary(@, tool_name, filled_form.tool_name,
                                                  calculated_score.total_score,
                                                  risk_level)])

\* AssessTool without the except branch: the exception leaves the loop
AssessTool_NoCatch(results, tool_name, plan, log, wl, h, rd) ==
    TryTool(results, tool_name, plan, log, wl, h, rd)

\* AssessTool with an error result counted as a low-risk instrument
AssessTool_CountsError(results, tool_name, plan, log, wl, h, rd) ==
    LET tried == TryTool(results, tool_name, plan, log, wl, h, rd)
    IN  IF tried.raised
        THEN Ok([results EXCEPT
                    !.assessments = (tool_name :> ErrorResult(tried.exception)) @@ @,
                    !.summary.low_risk_count = @ + 1])
        ELSE tried

\* one iteration of the loop of calculate_all_assessments: try, and on an
\* exception record the error result and go on
AssessTool(results, tool_name, plan, log, wl, h, rd) ==
    LET tried == TryTool(results, tool_name, plan, log, wl, h, rd)
    IN  IF tried.raised
        THEN Ok([results EXCEPT
                    !.assessments = (tool_name :> ErrorResult(tried.exception)) @@ @])
        ELSE tried

RECURSIVE AssessFrom(_, _, _, _, _, _, _)
\* the loop over self.assessment_tools from position i on; an exception that
\* leaves an iteration ends the call
AssessFrom(outcome, i, plan, log, wl, h, rd) ==
    IF outcome.raised \/ i > Len(assessment_tools) THEN outcome
    ELSE AssessFrom(AssessTool(outcome.value, assessment_tools[i], plan, log, wl, h, rd),
                    i + 1, plan, log, wl, h, rd)

calculate_all_assessments(plan, log, wl, h, rd) ==
    AssessFrom(Ok([assessment_date |-> 0,
                   assessments |-> <<>>,
                   summary |-> [high_risk_count |-> 0,
                                medium_risk_count |-> 0,
                                low_risk_count |-> 0,
                                priority_alerts |-> <<>>]]),
               1, plan, log, wl, h, rd)

----------------------------------------------------------------------------
(* The Markdown formatter format_risk_assessment_for_care_plan.  A date is   *)
(* written as its number of weeks after the day of the call; the emoji of    *)
(* the headings are left out.  A dict of manual adjustments is the list of   *)
(* its <<tool_name, adjustment>> pairs.                                      *)

\* the lines for the manual adjustments: lines 1061-1073
AdjustmentLines(assessment_results) ==
    LET manual_adjustments == Get(assessment_results, "manual_adjustments", <<>>)
        LinesOf(pair) ==
            <<"- **" \o assessment_results.assessments[pair[1]].tool_name
                \o ":** Score adjusted from " \o Str(pair[2].original_score)
                \o " to " \o Str(pair[2].adjusted_score)>>
            \o (IF Get(pair[2], "reason", "") # ""
                THEN <<"  - *Manager's reasoning:* " \o pair[2].reason>>
                ELSE <<>>)
        RECURSIVE Each(_)
        Each(k) == IF k > Len(manual_adjustments) THEN <<>>
                   ELSE LinesOf(manual_adjustments[k]) \o Each(k + 1)
    IN  IF manual_adjustments = <<>> THEN <<>>
        ELSE <<"", "## MANAGER ADJUSTMENTS APPLIED",
               "*The following scores have been manually reviewed and adjusted by care manager based on actual resident observations:*",
               "">>
             \o Each(1) \o <<"">>

\* the lines for the summary: lines 1078-1091
SummaryLines(summary) ==
    <<"## Risk Overview",
      "- High Risk Areas: " \o Str(summary.high_risk_count),
      "- Medium Risk Areas: " \o Str(summary.medium_risk_count),
      "- Low Risk Areas: " \o Str(summary.low_risk_count),
      "">>
    \o (IF summary.priority_alerts # <<>>
        THEN <<"## PRIORITY ALERTS">>
             \o [k \in 1..Len(summary.priority_alerts) |->
                    "- " \o summary.priority_alerts[k].alert]
             \o <<"">>
        ELSE <<>>)

\* the outcome of the loop body for one assessment (lines 1096-1113): its
\* lines, or the KeyError of the first key it does not hold
AssessmentLines(assessment) ==
    IF "error" \in DOMAIN assessment THEN Ok(<<>>)
    ELSE IF "evidence" \notin DOMAIN assessment THEN Raise("KeyError: 'evidence'")
    ELSE IF "recommendations" \notin DOMAIN assessment
    THEN Raise("KeyError: 'recommendations'")
    ELSE Ok(<<"### " \o assessment.tool_name,
              "**Score:** " \o Str(assessment.score) \o "/" \o Str(assessment.max_score)
                  \o " - **" \o assessment.risk_level \o "**">>
            \o (IF assessment.evidence # <<>>
                THEN <<"**Evidence:**">>
                     \o [k \in 1..Len(assessment.evidence) |-> "- " \o assessment.evidence[k]]
                ELSE <<>>)
            \o (IF assessment.recommendations # <<>>
                THEN <<"**Recommendations:**">>
                     \o [k \in 1..Len(assessment.recommendations) |->
                            "- " \o assessment.recommendations[k]]
                ELSE <<>>)
            \o <<"**Next Review:** " \o Str(assessment.next_review_date), "">>)

RECURSIVE FormatFrom(_, _, _)
\* the loop over the assessments, in the order of the dict, from the k-th
\* tool on: an exception leaves the loop
FormatFrom(assessments, k, output) ==
    IF k > Len(assessment_tools) THEN Ok(output)
    ELSE IF assessment_tools[k] \notin DOMAIN assessments
    THEN FormatFrom(assessments, k + 1, output)
    ELSE LET lines == AssessmentLines(assessments[assessment_tools[k]])
         IN  IF lines.raised THEN lines
             ELSE FormatFrom(assessments, k + 1, output \o lines.value)

\* format_risk_assessment_for_care_plan(assessment_results), for a dict
format_risk_assessment_for_care_plan(assessment_results) ==
    IF DOMAIN assessment_results = {} \/ "assessments" \notin DOMAIN assessment_results
    THEN Ok("Risk Assessment: Unable to calculate at this time.")
    ELSE LET head == <<"# RISK ASSESSMENT SUMMARY",
                       "**Assessment Date:** " \o Str(assessment_results.assessment_date)>>
                     \o AdjustmentLines(assessment_results)
                     \o <<"">>
                     \o SummaryLines(assessment_results.summary)
                     \o <<"## Detailed Risk Assessments">>
             lines == FormatFrom(assessment_results.assessments, 1, head)
         IN  IF lines.raised THEN lines ELSE Ok(JoinLines("\n", lines.value))

----------------------------------------------------------------------------
(* The calls and their inputs *)

\* the longest weight series drawn
MaxSeries == 2

Plans ==
    {"",
     "Dementia diagnosis. Medication: Aspirin 75mg tablet, Metformin 500mg tablet, Warfarin 3mg tablet, Insulin, Paracetamol 500mg tablet.",
     "Resident is bedbound and incontinent of urine.",
     "1 tablet am, 1 tablet noon, 1 tablet pm, 1 tablet night.",
     "Takes aspirin, warfarin, metformin, insulin. PRN paracetamol, aspirin, warfarin, metformin.",
     "Uses wheelchair. Unsteady, cannot stand. Poor appetite, nil by mouth, infection."}

Logs ==
    {"",
     "Fell twice.",
     "Crying and grimacing, restless, confused, in pain. Anxious, sad, tearful, slow, tired, poor sleep.",
     "Quiet day, ate well."}

WeightValues == {0, 61, 70, 74, 80}

\* series whose weight loss is exactly 10% and exactly 5%
BoundarySeries == {<<70, 63>>, <<80, 76>>}

\* None, the empty list, every list of 1..MaxSeries weights and the boundary
\* series
WeightSeries ==
    {None}
    \cup {Some(w) : w \in UNION {[1..n -> WeightValues] : n \in 0..MaxSeries}}
    \cup {Some(w) : w \in BoundarySeries}

Heights == {None, Some(0), Some(170), Some(200)}

Residents ==
    {None, Some(<<>>),
     Some([age |-> 85, gender |-> "female"]),
     Some([age |-> 78, gender |-> "Male"]),
     Some([age |-> 65]),
     Some([gender |-> "Female"]),
     Some([name |-> "Unnamed Resident"])}

\* calls that vary the texts, without and with weights, height and metadata
TextInputs ==
    (Plans \X Logs \X {None} \X {None} \X {None})
    \cup (Plans \X Logs \X {Some(<<70, 61>>)} \X {Some(170)}
                \X {Some([age |-> 85, gender |-> "female"])})
    \cup (Plans \X Logs \X {Some(<<80, 76>>)} \X {Some(200)}
                \X {Some([age |-> 78, gender |-> "Male"])})

\* calls that vary the weight series and the height
NumericInputs ==
    ({""} \X {""} \X WeightSeries \X Heights \X {None})
    \cup ({"Nil by mouth, infection.", "Fasting today.", "Unwell."} \X {""}
            \X {None, Some(<<74>>), Some(<<70, 61>>), Some(<<80, 76>>)}
            \X {None, Some(200)} \X {None})

\* calls that vary the resident metadata
ResidentInputs ==
    {"", "Resident is bedbound and incontinent of urine."}
        \X {"", "Fell twice."} \X {None} \X {None} \X Residents

\* calls with texts that hold keywords of several PEEP tiers, keywords of
\* the Cornell groups up to and beyond the caps, and keywords of every Abbey
\* group
ScorerInputs ==
    {"Uses walking aid, slow mobility.",
     "Dementia with confusion. Uses walking aid.",
     "Wheelchair user with dementia, cognitive decline; walking aid kept by the bed.",
     "Anxious, sad, tearful, irritable, worried. Agitated, slow, withdrawn, lost interest. Appetite loss, weight loss, tired, fatigue, no energy. Insomnia.",
     "Anxious, sad, tearful, irritable. Agitated, slow, withdrawn. Waking at night.",
     "Anxious, sad, tearful, worried. Agitated, withdrawn, lost interest, slow.",
     "Anxious and sad. Slow. Tired, fatigue.",
     "Anxious, sad, tearful, irritable.",
     "Crying, grimacing, restless and confused.",
     "Moaning and wincing, fidgeting, refusing care, crying; sore, in pain, given paracetamol."}
        \X {""} \X {None} \X {None} \X {None}

Inputs == TextInputs \cup NumericInputs \cup ResidentInputs \cup ScorerInputs

Init ==
    /\ \E in \in Inputs :
          /\ care_plan_text = in[1]
          /\ log_entries = in[2]
          /\ weight_logs = in[3]
          /\ height = in[4]
          /\ resident_data = in[5]
    /\ report = None
    /\ scored = None
    /\ formatted = None
    /\ daily_log_content = ""
    /\ processed_daily_log = None
    /\ called = None
    /\ daily_data = None
    /\ ApiIdle

\* The caller makes one call of the aggregator and one direct call of a
\* scorer on the same inputs, in either order.
CallAggregator ==
    /\ report = None
    /\ report' = Some(calculate_all_assessments(care_plan_text, log_entries,
                                                weight_logs, height, resident_data))
    /\ UNCHANGED <<inputs, scored, formatted, log_vars, api_vars>>

Scored(tool, outcome) == Some([tool |-> tool, outcome |-> outcome])

CallFallsScreening ==
    /\ scored = None
    /\ scored' = Scored("falls_screening",
                        Ok(calculate_falls_screening(care_plan_text, log_entries, resident_data)))
    /\ UNCHANGED <<inputs, report, formatted, log_vars, api_vars>>

CallPpu ==
    /\ scored = None
    /\ scored' = Scored("pressure_ulcer_ppu",
                        Ok(calculate_ppu(care_plan_text, log_entries, resident_data)))
    /\ UNCHANGED <<inputs, report, formatted, log_vars, api_vars>>

CallMust ==
    /\ scored = None
    /\ scored' = Scored("must_nutrition",
                        IF MustRaises(weight_logs) THEN Raise("ZeroDivisionError")
                        ELSE Ok(calculate_must(care_plan_text, log_entries, weight_logs, height)))
    /\ UNCHANGED <<inputs, report, formatted, log_vars, api_vars>>

CallWaterlow ==
    /\ scored = None
    /\ scored' = Scored("waterlow",
                        Ok(calculate_waterlow(care_plan_text, log_entries, resident_data)))
    /\ UNCHANGED <<inputs, report, formatted, log_vars, api_vars>>

CallAbbeyPain ==
    /\ scored = None
    /\ scored' = Scored("abbey_pain",
                        Ok(calculate_abbey_pain(care_plan_text, log_entries, resident_data)))
    /\ UNCHANGED <<inputs, report, formatted, log_vars, api_vars>>

CallCornellDepression ==
    /\ scored = None
    /\ scored' = Scored("cornell_depression",
                        Ok(calculate_cornell_depression(care_plan_text, log_entries, resident_data)))
    /\ UNCHANGED <<inputs, report, formatted, log_vars, api_vars>>

CallMovingHandling ==
    /\ scored = None
    /\ scored' = Scored("moving_handling",
                        Ok(calculate_moving_handling(care_plan_text, log_entries, resident_data)))
    /\ UNCHANGED <<inputs, report, formatted, log_vars, api_vars>>

CallPeep ==
    /\ scored = None
    /\ scored' = Scored("peep",
                        Ok(calculate_peep(care_plan_text, log_entries, resident_data)))
    /\ UNCHANGED <<inputs, report, formatted, log_vars, api_vars>>

\* the report of the aggregator is formatted for the care plan
CallFormat ==
    /\ report # None
    /\ ~report[1].raised
    /\ formatted = None
    /\ formatted' = Some(format_risk_assessment_for_care_plan(report[1].value))
    /\ UNCHANGED <<inputs, report, scored, log_vars, api_vars>>

Next ==
    \/ CallFormat
    \/ CallAggregator
    \/ CallFallsScreening
    \/ CallPpu
    \/ CallMust
    \/ CallWaterlow
    \/ CallAbbeyPain
    \/ CallCornellDepression
    \/ CallMovingHandling
    \/ CallPeep

Spec == Init /\ [][Next]_vars

----------------------------------------------------------------------------
(* Properties of the aggregated report *)

Tools == {assessment_tools[k] : k \in 1..Len(assessment_tools)}

Returned == report # None /\ ~report[1].raised

Assessments == report[1].value.assessments

Summary == report[1].value.summary

IsErrorResult(e) == "error" \in DOMAIN e

\* the tools of the report that hold a result, not an error
Assessed == {t \in DOMAIN Assessments : ~IsErrorResult(Assessments[t])}

ErrorShape(e) ==
    /\ DOMAIN e = {"error", "score", "risk_level"}
    /\ e.score = 0
    /\ e.risk_level = "Unable to assess"

ValidShape(e) ==
    /\ DOMAIN e = {"tool_name", "form_items", "score", "max_score", "risk_level",
                   "ai_filled_items", "manager_required_items",
                   "calculation_formula", "next_review_date"}
    /\ e.score \in Nat
    /\ e.risk_level # "Unable to assess"
    /\ Len(e.form_items) > 0

\* C1: calculate_all_assessments returns a report for every input, never an
\* exception; the assessments map has exactly the eight instrument keys, each
\* a valid result or an error result with score 0 and risk level 'Unable to
\* assess'; and an instrument that fails does not stop the instruments after
\* it: every instrument that has a standard form holds a valid result.
C1_AggregatorNeverRaises ==
    report # None =>
        /\ ~report[1].raised
        /\ DOMAIN Assessments = Tools
        /\ Cardinality(DOMAIN Assessments) = 8
        /\ \A t \in Tools :
              \/ ErrorShape(Assessments[t])
              \/ ValidShape(Assessments[t])
        /\ \A t \in DOMAIN forms : ValidShape(Assessments[t])

\* the report of two empty texts: one instrument failed, the ones after it
\* were assessed
C1_Witness ==
    /\ Returned
    /\ care_plan_text = "" /\ log_entries = ""
    /\ \E t \in Tools : ErrorShape(Assessments[t])
    /\ ValidShape(Assessments["peep"])

AlertsOf(t) ==
    {k \in 1..Len(Summary.priority_alerts) : Summary.priority_alerts[k].tool = t}

\* the level of a result is high: it holds 'high' or 'severe', in any case
HighResult(e) ==
    ~IsErrorResult(e)
    /\ (In("high", Lower(e.risk_level)) \/ In("severe", Lower(e.risk_level)))

MediumResult(e) ==
    ~IsErrorResult(e) /\ ~HighResult(e)
    /\ (In("medium", Lower(e.risk_level)) \/ In("moderate", Lower(e.risk_level)))

LowResult(e) == ~IsErrorResult(e) /\ ~HighResult(e) /\ ~MediumResult(e)

\* C2: priority_alerts holds exactly one alert for each instrument whose
\* level is high and whose score is greater than 0, carrying that score and
\* level, and no alert for any other instrument (score 0, medium, low, error).
C2_PriorityAlerts ==
    Returned =>
        /\ \A t \in Tools :
              LET e == Assessments[t]
              IN  IF HighResult(e) /\ e.score > 0
                  THEN /\ Cardinality(AlertsOf(t)) = 1
                       /\ \A k \in AlertsOf(t) :
                             /\ Summary.priority_alerts[k].score = e.score
                             /\ Summary.priority_alerts[k].risk_level = e.risk_level
                  ELSE AlertsOf(t) = {}
        /\ \A k \in 1..Len(Summary.priority_alerts) :
              Summary.priority_alerts[k].tool \in Tools

\* a report with a high-risk instrument that is alerted next to a medium-risk
\* instrument that is not
C2_Witness ==
    /\ Returned
    /\ \E t \in Tools : HighResult(Assessments[t]) /\ Assessments[t].score > 0
                        /\ Cardinality(AlertsOf(t)) = 1
    /\ \E t \in Tools : MediumResult(Assessments[t]) /\ AlertsOf(t) = {}

\* C3: every non-error instrument is counted in exactly one of the three
\* counts: high for a level holding 'high' or 'severe', otherwise medium for a
\* level holding 'medium' or 'moderate', otherwise low; the counts sum to the
\* number of non-error instruments.
C3_RiskCounts ==
    Returned =>
        /\ Summary.high_risk_count =
              Cardinality({t \in Tools : HighResult(Assessments[t])})
        /\ Summary.medium_risk_count =
              Cardinality({t \in Tools : MediumResult(Assessments[t])})
        /\ Summary.low_risk_count =
              Cardinality({t \in Tools : LowResult(Assessments[t])})
        /\ Summary.high_risk_count + Summary.medium_risk_count
              + Summary.low_risk_count = Cardinality(Assessed)

\* a report that fills all three counts and holds an error result
C3_Witness ==
    /\ Returned
    /\ Summary.high_risk_count > 0
    /\ Summary.medium_risk_count > 0
    /\ Summary.low_risk_count > 0
    /\ Cardinality(Assessed) < Cardinality(Tools)

NullItems(e) == {k \in 1..Len(e.form_items) : e.form_items[k].ai_value = None}

ValueItems(e) == {k \in 1..Len(e.form_items) : e.form_items[k].ai_value # None}

RECURSIVE SumValues(_, _)
\* the sum of the values of the items ks of the form of e
SumValues(e, ks) ==
    IF ks = {} THEN 0
    ELSE LET k == CHOOSE x \in ks : TRUE
         IN  e.form_items[k].ai_value[1] + SumValues(e, ks \ {k})

\* C4: in every filled form an item requires manager input exactly when its
\* detected value is null; the score is the sum of the non-null values only;
\* ai_filled_items counts the items with a value, manager_required_items the
\* null items, and the two add up to the number of items.
C4_NullNeverZero ==
    Returned =>
        \A t \in Assessed :
            LET e == Assessments[t]
            IN  /\ \A k \in 1..Len(e.form_items) :
                      e.form_items[k].manager_input_required
                          <=> (e.form_items[k].ai_value = None)
                /\ e.score = SumValues(e, ValueItems(e))
                /\ e.ai_filled_items = Cardinality(ValueItems(e))
                /\ e.manager_required_items = Cardinality(NullItems(e))
                /\ e.ai_filled_items + e.manager_required_items = Len(e.form_items)

\* a form with a null item, an item of value 0 and an item of value 1 or more
C4_Witness ==
    /\ Returned
    /\ NullItems(Assessments["must_nutrition"]) # {}
    /\ \E k \in ValueItems(Assessments["must_nutrition"]) :
          Assessments["must_nutrition"].form_items[k].ai_value = Some(0)
    /\ \E k \in ValueItems(Assessments["falls_screening"]) :
          Assessments["falls_screening"].form_items[k].ai_value = Some(1)

----------------------------------------------------------------------------
(* Properties of the instrument results *)

\* the latest direct scorer call was of tool t and returned a result
ScoredBy(t) == scored # None /\ scored[1].tool = t /\ ~scored[1].outcome.raised

ScoredResult == scored[1].outcome.value

\* the missing_data entries of a result; a result without the key has none
MissingData(e) == Get(e, "missing_data", <<>>)

\* C5: in every instrument result every form item with a non-null value has a
\* non-empty evidence string, and every item whose value is null has a
\* corresponding missing_data entry in the result (as many missing_data
\* entries as null items, at least).
C5_EvidenceAndMissingData ==
    Returned =>
        \A t \in Assessed :
            LET e == Assessments[t]
            IN  /\ \A k \in ValueItems(e) : e.form_items[k].ai_evidence # ""
                /\ "missing_data" \in DOMAIN e
                /\ Len(MissingData(e)) >= Cardinality(NullItems(e))

CombinedText == Lower(care_plan_text \o " " \o log_entries)

Points(b) == IF b THEN 1 ELSE 0

\* the five scored sub-conditions of Falls Screening, as the specification
\* states them; the medication count is the halved, capped count
FallsHistory == AnyIn(fall_keywords, CombinedText)

FourMedications == _count_medications(care_plan_text) >= 4

FallsDiagnosis == AnyIn(disease_keywords, CombinedText)

BalanceProblem == AnyIn(balance_keywords, CombinedText)

StandingDifficulty == AnyIn(standing_keywords, CombinedText)

FallsTrueCount ==
    Points(FallsHistory) + Points(FourMedications) + Points(FallsDiagnosis)
    + Points(BalanceProblem) + Points(StandingDifficulty)

FallsLevel(score) ==
    IF score >= 3 THEN "High Risk" ELSE IF score = 2 THEN "Medium Risk" ELSE "Low Risk"

\* exactly falls history, four medications and a diagnosis are present
FallsExample ==
    FallsHistory /\ FourMedications /\ FallsDiagnosis
    /\ ~BalanceProblem /\ ~StandingDifficulty

\* the claim of C6 for a Falls Screening result with the given score, level
\* and number of items flagged as missing
FallsClaim(score, level, flagged) ==
    /\ 0 <= score /\ score <= 6
    /\ score = FallsTrueCount
    /\ level = FallsLevel(score)
    /\ FallsExample => (score = 3 /\ flagged = 3)

\* C6: the Falls Screening score is between 0 and 6 and is the number of
\* sub-conditions found true; with exactly falls history, four medications
\* and a diagnosis it is 3 and the other three items are flagged as missing;
\* the level is High for 3 or more, Medium for 2, Low otherwise.  Stated of
\* the result of the scorer and of the result in the aggregated report.
C6_FallsScore ==
    /\ ScoredBy("falls_screening") =>
          FallsClaim(ScoredResult.score, ScoredResult.risk_level,
                     Len(ScoredResult.missing_data))
    /\ (Returned /\ "falls_screening" \in Assessed) =>
          FallsClaim(Assessments["falls_screening"].score,
                     Assessments["falls_screening"].risk_level,
                     Assessments["falls_screening"].manager_required_items)

\* the weight series has at least two samples, the first above 0
TwoWeights == TruthyColl(weight_logs) /\ Len(weight_logs[1]) >= 2 /\ weight_logs[1][1] > 0

\* the MUST score the claim states, for a series of two or more weights
MustExpected ==
    LET w == weight_logs[1]
    IN  (IF TruthyNum(height) THEN BmiPoints(w[Len(w)], height[1]) ELSE 0)
        + WeightLossPoints(w[1], w[Len(w)])
        + (IF AnyIn(fasting_keywords, CombinedText) /\ AnyIn(illness_keywords, CombinedText)
           THEN 2 ELSE 0)

MustLevel(score) ==
    IF score >= 2 THEN "High Risk" ELSE IF score = 1 THEN "Medium Risk" ELSE "Low Risk"

MustExample == weight_logs = Some(<<70, 61>>) /\ height = Some(170)

MustClaim(score, level) ==
    /\ score = MustExpected
    /\ level = MustLevel(score)
    /\ (MustExample /\ ~AnyIn(fasting_keywords, CombinedText)) =>
          (score = 2 /\ level = "High Risk")

\* C7: for a series of two or more weights the MUST score is the BMI points
\* of the latest weight plus the weight-loss points between the first and the
\* last weight plus 2 for fasting with acute illness, and the level is High
\* Risk for 2 or more, Medium Risk for 1, Low Risk for 0; weights [70, 61]
\* with height 170 give 2 and 'High Risk'.  Stated of the result of the
\* scorer and of the result in the aggregated report.
C7_MustScore ==
    TwoWeights =>
        /\ ScoredBy("must_nutrition") =>
              MustClaim(ScoredResult.score, ScoredResult.risk_level)
        /\ (Returned /\ "must_nutrition" \in Assessed) =>
              MustClaim(Assessments["must_nutrition"].score,
                        Assessments["must_nutrition"].risk_level)

BmiUnknown == ~(TruthyColl(weight_logs) /\ TruthyNum(height))

LossUnknown == ~(TruthyColl(weight_logs) /\ Len(weight_logs[1]) >= 2)

BmiNote == "BMI calculation - Manager must provide current weight (kg) and height (cm)"

LossNote == "Weight loss calculation - Manager must provide weight records from 3-6 months ago"

Holds(strs, str) == \E k \in 1..Len(strs) : strs[k] = str

\* some entry of strs starts with prefix
HoldsPrefix(strs, prefix) ==
    \E k \in 1..Len(strs) :
        Len(strs[k]) >= Len(prefix) /\ SubSeq(strs[k], 1, Len(prefix)) = prefix

ItemOf(e, id) == e.form_items[CHOOSE k \in 1..Len(e.form_items) : e.form_items[k].id = id]

\* C8: in MUST scoring, with an empty weight series or no height the BMI item
\* is unscored and a missing-data note says so; with fewer than two weights
\* the weight-loss item is unscored and a missing-data note says so; the item
\* is not given 0 points.  In the scorer the note is the missing_data entry
\* and the item adds no evidence line; in the aggregated form the item's
\* value is null, manager input is required and the note is its evidence.
C8_MustMissingData ==
    /\ ScoredBy("must_nutrition") =>
          /\ BmiUnknown =>
                /\ Holds(ScoredResult.missing_data, BmiNote)
                /\ ~HoldsPrefix(ScoredResult.evidence, "BMI")
          /\ LossUnknown =>
                /\ Holds(ScoredResult.missing_data, LossNote)
                /\ ~HoldsPrefix(ScoredResult.evidence, "Weight loss")
          /\ ~BmiUnknown => ~Holds(ScoredResult.missing_data, BmiNote)
          /\ ~LossUnknown => ~Holds(ScoredResult.missing_data, LossNote)
    /\ (Returned /\ "must_nutrition" \in Assessed) =>
          LET e == Assessments["must_nutrition"]
          IN  /\ BmiUnknown =>
                    /\ ItemOf(e, "bmi").ai_value = None
                    /\ ItemOf(e, "bmi").manager_input_required
                    /\ ItemOf(e, "bmi").ai_evidence =
                          "Missing weight or height data for BMI calculation"
              /\ ~BmiUnknown => ItemOf(e, "bmi").ai_value # None
              /\ LossUnknown =>
                    /\ ItemOf(e, "weight_loss").ai_value = None
                    /\ ItemOf(e, "weight_loss").manager_input_required
                    /\ ItemOf(e, "weight_loss").ai_evidence # ""

\* both calls were made on a series of one weight without a height: the BMI
\* and the weight-loss item are unscored, with their notes
C8_Witness ==
    /\ weight_logs = Some(<<74>>) /\ height = None
    /\ ScoredBy("must_nutrition")
    /\ Holds(ScoredResult.missing_data, BmiNote)
    /\ Holds(ScoredResult.missing_data, LossNote)
    /\ Returned
    /\ ItemOf(Assessments["must_nutrition"], "bmi").ai_value = None

HasAge == TruthyColl(resident_data) /\ "age" \in DOMAIN resident_data[1]

HasGender == TruthyColl(resident_data) /\ "gender" \in DOMAIN resident_data[1]

\* the Waterlow score the claim states
WaterlowExpected ==
    (IF ~HasAge THEN 0
     ELSE IF resident_data[1].age >= 81 THEN 5
     ELSE IF resident_data[1].age >= 75 THEN 4
     ELSE IF resident_data[1].age >= 65 THEN 3
     ELSE 0)
    + (IF ~HasGender THEN 0
       ELSE IF Lower(resident_data[1].gender) = "female" THEN 2 ELSE 1)
    + (IF AnyIn(skin_keywords, CombinedText) THEN 2 ELSE 0)
    + (IF ~In("incontinent", CombinedText) THEN 0
       ELSE IF In("faeces", CombinedText) \/ In("bowel", CombinedText) THEN 3
       ELSE 1)
    + (IF AnyIn(<<"bedbound", "chair bound", "immobile">>, CombinedText) THEN 4
       ELSE IF \E k \in 1..Len(Split(CombinedText)) :
                  Split(CombinedText)[k] \in {"wheelchair", "walking aid", "assistance"}
       THEN 3
       ELSE 0)
    + (IF AnyIn(<<"poor appetite", "weight loss", "not eating", "malnourished">>, CombinedText)
       THEN 1 ELSE 0)

WaterlowLevel(score) ==
    IF score >= 20 THEN "Very High Risk"
    ELSE IF score >= 15 THEN "High Risk"
    ELSE IF score >= 10 THEN "Medium Risk"
    ELSE "Low Risk"

WaterlowExample ==
    /\ resident_data = Some([age |-> 85, gender |-> "female"])
    /\ care_plan_text = "Resident is bedbound and incontinent of urine."
    /\ log_entries = ""

WaterlowClaim(score, level) ==
    /\ score = WaterlowExpected
    /\ level = WaterlowLevel(score)
    /\ WaterlowExample => (score = 12 /\ level = "Medium Risk")

\* C9: the Waterlow score is the sum of the age, gender, skin, continence,
\* mobility and nutrition points, with the level Very High for 20 or more,
\* High for 15 or more, Medium for 10 or more, Low otherwise; age 85, female,
\* 'bedbound' and 'incontinent of urine' give 12 and 'Medium Risk'.  Stated
\* of the result of the scorer and of the result in the aggregated report.
C9_WaterlowScore ==
    /\ ScoredBy("waterlow") =>
          WaterlowClaim(ScoredResult.score, ScoredResult.risk_level)
    /\ (Returned /\ "waterlow" \in Assessed) =>
          WaterlowClaim(Assessments["waterlow"].score,
                        Assessments["waterlow"].risk_level)

\* C10: for every instrument, the score and the risk level in the report of
\* calculate_all_assessments are the score and the risk_level the
\* instrument's own scorer returns for the same input.
C10_AggregatorRunsScorers ==
    (Returned /\ scored # None /\ ~scored[1].outcome.raised) =>
        /\ Assessments[scored[1].tool].score = ScoredResult.score
        /\ Assessments[scored[1].tool].risk_level = ScoredResult.risk_level

----------------------------------------------------------------------------
(* The document reducer (src/structure_analyzer.py).  The module defines    *)
(* analyze_csv_structure, smart_compress_csv and is_large_file twice; a     *)
(* later def rebinds the name, so the functions src/main.py imports and     *)
(* calls are the second ones (lines 244-269), and these are modelled.       *)
(* get_fallback_structure is defined once (lines 82-127).  A float is the   *)
(* pair <<numerator, denominator>>.                                         *)

\* the separator nearest to the middle of s[lo..hi], or 0 if there is none
NearestSep(s, sep, lo, hi) ==
    LET mid == (lo + hi) \div 2
        far == hi - lo + 1
        IsSep(i) == i >= lo /\ i <= hi /\ CharAt(s, i) = sep
        d == CHOOSE e \in 0..far : e = far \/ IsSep(mid - e) \/ IsSep(mid + e)
    IN  IF d = far THEN 0 ELSE IF IsSep(mid - d) THEN mid - d ELSE mid + d

RECURSIVE SplitRange(_, _, _, _)
\* the pieces of s[lo..hi] between the separators, by halving the range
SplitRange(s, sep, lo, hi) ==
    IF lo > hi THEN <<"">>
    ELSE LET p == NearestSep(s, sep, lo, hi)
         IN  IF p = 0 THEN <<SubSeq(s, lo, hi)>>
             ELSE SplitRange(s, sep, lo, p - 1) \o SplitRange(s, sep, p + 1, hi)

\* s.split(sep) for a separator of one character
SplitBy(s, sep) == SplitRange(s, sep, 1, Len(s))

\* content.split('\n')
Lines(content) == SplitBy(content, "\n")

\* is_large_file(content), second definition
is_large_file(content) ==
    Len(Lines(content)) > 500 \/ Len(content) > 100000

\* analyze_csv_structure(content), second definition
analyze_csv_structure(content) ==
    LET lines == Lines(content)
    IN  [total_lines |-> Len(lines),
         has_header |-> TRUE,
         estimated_size |-> Len(content),
         columns |-> IF lines # <<>> THEN SplitBy(lines[1], ",") ELSE <<>>]

\* lines[1::3]
EveryThird(lines) ==
    [k \in 1..((Len(lines) + 1) \div 3) |-> lines[3 * k - 1]]

\* smart_compress_csv with the row reduction starting above 400 lines
smart_compress_csv_Above400(content, structure_info) ==
    LET lines == Lines(content)
    IN  IF Len(lines) > 400
        THEN (IF lines # <<>> THEN lines[1] ELSE "")
             \o "\n" \o JoinLines("\n", EveryThird(lines))
        ELSE content

\* smart_compress_csv(content, structure_info), second definition
smart_compress_csv(content, structure_info) ==
    LET lines == Lines(content)
    IN  IF Len(lines) > 1000
        THEN (IF lines # <<>> THEN lines[1] ELSE "")
             \o "\n" \o JoinLines("\n", EveryThird(lines))
        ELSE content

\* next(csv.reader([line]), []) for a line without quote characters: no row
\* for an empty line, else the fields between the commas
CsvRow(line) == IF line = "" THEN <<>> ELSE SplitBy(line, ",")

\* the classification of one header by get_fallback_structure
FallbackColumn(header) ==
    LET header_lower == Lower(header)
        critical == AnyIn(<<"date", "time", "day">>, header_lower)
                    \/ AnyIn(<<"name", "id", "resident">>, header_lower)
        high == AnyIn(<<"care", "health", "medical", "bowel", "water", "food">>,
                      header_lower)
    IN  [name |-> header,
         data_type |-> "text",
         importance |-> IF critical THEN "critical"
                        ELSE IF high THEN "high" ELSE "medium",
         compression_strategy |-> IF critical THEN "keep_all"
                                  ELSE IF high THEN "sample" ELSE "summarize",
         pattern_description |-> "Column: " \o header]

\* get_fallback_structure(csv_content, max_rows); the body cannot fail on a
\* string, so its except branch is not taken
get_fallback_structure(csv_content, max_rows) ==
    LET lines == Lines(csv_content)
        headers == CsvRow(lines[1])
    IN  IF lines = <<>> THEN [error |-> "Empty CSV"]
        ELSE [columns |-> [k \in 1..Len(headers) |-> FallbackColumn(headers[k])],
              total_columns |-> Len(headers),
              data_density |-> "medium",
              recommended_compression_ratio |-> <<6, 10>>,
              key_insights |-> "CSV with " \o Str(Len(headers))
                               \o " columns, fallback analysis used"]

\* the part of the analyze handler that prepares the daily log: the size
\* gate, then profiling and reduction of a large log
ProcessDailyLog(content) ==
    IF is_large_file(content)
    THEN smart_compress_csv(content, analyze_csv_structure(content))
    ELSE content

----------------------------------------------------------------------------
(* The calls of the reducer and their inputs *)

RECURSIVE Repeat(_, _)
\* s * n
Repeat(s, n) ==
    IF n = 0 THEN ""
    ELSE IF n = 1 THEN s
    ELSE LET half == Repeat(s, n \div 2)
         IN  IF n % 2 = 0 THEN half \o half ELSE half \o half \o s

RECURSIVE CsvRows(_, _)
\* the data rows lo..hi of a daily log in CSV form, each behind a newline
CsvRows(lo, hi) ==
    IF lo > hi THEN ""
    ELSE IF lo = hi THEN "\nday " \o Str(lo) \o ",2,settled"
    ELSE LET mid == (lo + hi) \div 2
         IN  CsvRows(lo, mid) \o CsvRows(mid + 1, hi)

\* a CSV log of n lines: a header and n - 1 data rows
CsvLog(n) == "date,bowel,notes" \o CsvRows(1, n - 1)

RECURSIVE ProseRows(_, _)
ProseRows(lo, hi) ==
    IF lo > hi THEN ""
    ELSE IF lo = hi THEN "\nRound " \o Str(lo) \o ": resident settled and comfortable."
    ELSE LET mid == (lo + hi) \div 2
         IN  ProseRows(lo, mid) \o ProseRows(mid + 1, hi)

\* a log of n lines of running text, without any comma
ProseLog(n) == "Night report for the unit" \o ProseRows(1, n - 1)

\* the empty text, short texts, and logs around the thresholds of 500 and
\* 1000 lines and of 100000 characters
DailyLogs ==
    {"", "hello world", "\n", "date,bowel\n01/02/2024,2",
     "date,care notes,staff\n01/02/2024,ate well,AB\n02/02/2024,slept,CD\n",
     ProseLog(3), ProseLog(500), ProseLog(501), ProseLog(1001), ProseLog(1100),
     CsvLog(12), CsvLog(450), CsvLog(500), CsvLog(501), CsvLog(1000),
     CsvLog(1001), CsvLog(1002), CsvLog(1003), CsvLog(1201),
     Repeat("x", 100000), Repeat("x", 100001),
     "date,notes\n" \o Repeat("01/02/2024," \o Repeat("z", 289) \o "\n", 340)}

\* the profiles a caller passes to smart_compress_csv: the two the module
\* computes, a failed analysis, and a profile that asks for 30% of the rows
Profiles(content) ==
    {analyze_csv_structure(content),
     get_fallback_structure(content, 10),
     [error |-> "Empty CSV"],
     [columns |-> <<>>, total_columns |-> 0, data_density |-> "low",
      recommended_compression_ratio |-> <<3, 10>>]}

InitReducer ==
    /\ care_plan_text = ""
    /\ log_entries = ""
    /\ weight_logs = None
    /\ height = None
    /\ resident_data = None
    /\ report = None
    /\ scored = None
    /\ formatted = None
    /\ daily_log_content \in DailyLogs
    /\ processed_daily_log = None
    /\ called = None
    /\ daily_data = None
    /\ ApiIdle

Called(function, args, outcome) ==
    Some([function |-> function, args |-> args, outcome |-> outcome])

\* the analyze handler prepares the uploaded daily log
analyze ==
    /\ processed_daily_log = None
    /\ processed_daily_log' = Some(ProcessDailyLog(daily_log_content))
    /\ UNCHANGED <<risk_vars, api_vars, daily_log_content, called, daily_data>>

CallIsLargeFile ==
    /\ called = None
    /\ called' = Called("is_large_file", <<>>, Ok(is_large_file(daily_log_content)))
    /\ UNCHANGED <<risk_vars, api_vars, daily_log_content, processed_daily_log, daily_data>>

CallAnalyzeCsvStructure ==
    /\ called = None
    /\ called' = Called("analyze_csv_structure", <<>>,
                        Ok(analyze_csv_structure(daily_log_content)))
    /\ UNCHANGED <<risk_vars, api_vars, daily_log_content, processed_daily_log, daily_data>>

CallGetFallbackStructure ==
    /\ called = None
    /\ called' = Called("get_fallback_structure", <<10>>,
                        Ok(get_fallback_structure(daily_log_content, 10)))
    /\ UNCHANGED <<risk_vars, api_vars, daily_log_content, processed_daily_log, daily_data>>

CallSmartCompressCsv ==
    /\ called = None
    /\ \E structure_info \in Profiles(daily_log_content) :
          called' = Called("smart_compress_csv", <<structure_info>>,
                           Ok(smart_compress_csv(daily_log_content, structure_info)))
    /\ UNCHANGED <<risk_vars, api_vars, daily_log_content, processed_daily_log, daily_data>>

NextReducer ==
    \/ analyze
    \/ CallIsLargeFile
    \/ CallAnalyzeCsvStructure
    \/ CallGetFallbackStructure
    \/ CallSmartCompressCsv

ReducerSpec == InitReducer /\ [][NextReducer]_vars

----------------------------------------------------------------------------
(* Properties of the document reducer *)

\* smart_compress_csv was called directly and returned
Compressed == called # None /\ called[1].function = "smart_compress_csv"

CompressedText == called[1].outcome.value

Profile == called[1].args[1]

\* the analyze handler has prepared the log
Processed == processed_daily_log # None

\* C11: reduction of a text that is not large returns the text unchanged,
\* whatever the profile, and the analyze handler passes a log that is not
\* large on unchanged.
C11_SmallTextUnchanged ==
    ~is_large_file(daily_log_content) =>
        /\ Compressed => (~called[1].outcome.raised /\ CompressedText = daily_log_content)
        /\ Processed => processed_daily_log[1] = daily_log_content

\* a log of several hundred lines that is not large went through the handler
\* and through a direct reduction with a profile that carries a ratio
C11_Witness ==
    /\ ~is_large_file(daily_log_content)
    /\ Len(Lines(daily_log_content)) > 400
    /\ Processed /\ processed_daily_log[1] = daily_log_content
    /\ Compressed /\ "recommended_compression_ratio" \in DOMAIN Profile
    /\ CompressedText = daily_log_content

\* the data rows of a text: its lines after the header line
DataRows(text) == Tail(Lines(text))

\* the ratio of a profile, 0.6 where the profile states none
RatioOf(profile) == Get(profile, "recommended_compression_ratio", <<6, 10>>)

\* max(10, floor(n * ratio))
RowTarget(n, ratio) == Max(10, (n * ratio[1]) \div ratio[2])

\* the reduced text has the stated number of data rows, give or take one,
\* and holds the first and the last data row of the original
RowClaim(original, reduced, ratio) ==
    LET rows == DataRows(original)
        kept == DataRows(reduced)
        target == RowTarget(Len(rows), ratio)
    IN  /\ Len(kept) >= target - 1
        /\ Len(kept) <= target + 1
        /\ rows # <<>> =>
              /\ \E k \in 1..Len(kept) : kept[k] = rows[1]
              /\ \E k \in 1..Len(kept) : kept[k] = rows[Len(rows)]

\* C12: when a large text is reduced, the reduced text has
\* max(10, floor(rows * ratio)) data rows, give or take one, and holds the
\* first and the last original data row.  Stated of a direct reduction under
\* a profile without error and of the log the analyze handler prepares.
C12_ReducedRowCount ==
    is_large_file(daily_log_content) =>
        /\ (Compressed /\ "error" \notin DOMAIN Profile) =>
              RowClaim(daily_log_content, CompressedText, RatioOf(Profile))
        /\ Processed =>
              RowClaim(daily_log_content, processed_daily_log[1],
                       RatioOf(analyze_csv_structure(daily_log_content)))

\* the text is empty or no line of it has a comma
NonTabular(text) == ~In(",", text)

\* C13: for an empty or non-tabular text neither profiling nor reduction
\* raises, and reduction (direct or in the analyze handler) returns the text
\* unchanged.
C13_MalformedUnchanged ==
    NonTabular(daily_log_content) =>
        /\ called # None => ~called[1].outcome.raised
        /\ Compressed => CompressedText = daily_log_content
        /\ Processed => processed_daily_log[1] = daily_log_content

----------------------------------------------------------------------------
(* The daily-log extractor extract_daily_data (src/main.py) with the        *)
(* keyword lists and validity ranges of src/data_validation_config.py.      *)
(* The regular expressions are modelled by the matches re.search and        *)
(* re.findall return, character by character.  Word characters (\w) are     *)
(* the ASCII letters, the digits and the underscore: the logs drawn are     *)
(* ASCII texts, and the keyword lists hold the ASCII keywords of the        *)
(* source (its Chinese keywords cannot occur in an ASCII text).             *)

BOWEL_MOVEMENT_CONFIG ==
    [min_count |-> 0,
     max_count |-> 10,
     keywords |-> <<"bowel", "stool", "defecation", "bm", "toilet">>]

WATER_INTAKE_CONFIG ==
    [min_amount |-> 100,
     max_amount |-> 4000,
     keywords |-> <<"water", "fluid", "drink", "ml", "liter", "hydration">>]

FOOD_INTAKE_CONFIG ==
    [min_percentage |-> 0,
     max_percentage |-> 100,
     keywords |-> <<"food", "eat", "meal", "intake", "consumption", "%", "percent">>]

INCIDENT_CONFIG ==
    [general_keywords |->
        <<"fall", "incident", "accident", "injury", "problem", "concern",
          "unusual", "abnormal", "emergency", "alert">>,
     high_severity_keywords |->
        <<"severe", "serious", "emergency", "injury", "hospital", "doctor",
          "bleeding", "fracture", "unconscious">>,
     medium_severity_keywords |->
        <<"minor", "small", "slight", "bruise", "scratch">>]

is_valid_bowel_movement(count) ==
    BOWEL_MOVEMENT_CONFIG.min_count <= count /\ count <= BOWEL_MOVEMENT_CONFIG.max_count

is_valid_water_intake(amount) ==
    WATER_INTAKE_CONFIG.min_amount <= amount /\ amount <= WATER_INTAKE_CONFIG.max_amount

is_valid_food_intake(percentage) ==
    FOOD_INTAKE_CONFIG.min_percentage <= percentage
    /\ percentage <= FOOD_INTAKE_CONFIG.max_percentage

\* get_incident_severity(description): both remaining branches give medium
get_incident_severity(description) ==
    LET description_lower == Lower(description)
    IN  IF AnyIn(INCIDENT_CONFIG.high_severity_keywords, description_lower)
        THEN "high"
        ELSE IF AnyIn(INCIDENT_CONFIG.medium_severity_keywords, description_lower)
        THEN "medium"
        ELSE "medium"

\* line.strip()
Strip(line) ==
    LET solid == {i \in 1..Len(line) : ~IsSpace(CharAt(line, i))}
    IN  IF solid = {} THEN ""
        ELSE SubSeq(line, CHOOSE i \in solid : \A j \in solid : i <= j,
                          CHOOSE i \in solid : \A j \in solid : i >= j)

\* the character at position i of s, or "" outside of s
At(s, i) == IF i >= 1 /\ i <= Len(s) THEN CharAt(s, i) ELSE ""

\* \d
IsDigit(c) == \E i \in 1..10 : CharAt(Digits, i) = c

\* \w
IsWordChar(c) == IsDigit(c) \/ IsLetter(c) \/ c = "_"

\* s[i..i+n-1] are n digits
DigitsAt(s, i, n) == \A k \in i..(i + n - 1) : IsDigit(At(s, k))

\* the last position of the run of digits that holds position i
RunEnd(s, i) ==
    CHOOSE e \in i..Len(s) :
        DigitsAt(s, i, e - i + 1) /\ ~IsDigit(At(s, e + 1))

\* the first position of the run of digits that holds position i
RunStart(s, i) ==
    CHOOSE b \in 1..i :
        DigitsAt(s, b, i - b + 1) /\ ~IsDigit(At(s, b - 1))

RECURSIVE ParseInt(_)
\* int(s) of a string of digits
ParseInt(s) ==
    IF s = "" THEN 0
    ELSE 10 * ParseInt(SubSeq(s, 1, Len(s) - 1))
         + (CHOOSE d \in 0..9 : CharAt(Digits, d + 1) = CharAt(s, Len(s)))

\* the members of a set of positions in increasing order
Ascending(positions) ==
    [k \in 1..Cardinality(positions) |->
        CHOOSE i \in positions : Cardinality({j \in positions : j < i}) = k - 1]

\* [/-]
IsDateSep(c) == c = "/" \/ c = "-"

\* a digits, a separator, b digits, a separator, c digits from position i on
DateShape(s, i, a, b, c) ==
    /\ DigitsAt(s, i, a)
    /\ IsDateSep(At(s, i + a))
    /\ DigitsAt(s, i + a + 1, b)
    /\ IsDateSep(At(s, i + a + b + 1))
    /\ DigitsAt(s, i + a + b + 2, c)

\* the ways position i matches \d{1,2}[/-]\d{1,2}[/-]\d{2,4}
DayFirstShapes(s, i) ==
    {t \in {1, 2} \X {1, 2} \X {2, 3, 4} : DateShape(s, i, t[1], t[2], t[3])}

\* the ways position i matches \d{4}[/-]\d{1,2}[/-]\d{1,2}
YearFirstShapes(s, i) ==
    {t \in {4} \X {1, 2} \X {1, 2} : DateShape(s, i, t[1], t[2], t[3])}

\* the shape a greedy match takes: the longest first part, then the longest
\* second part, then the longest third part
Greedy(shapes) ==
    CHOOSE t \in shapes :
        \A u \in shapes :
            100 * t[1] + 10 * t[2] + t[3] >= 100 * u[1] + 10 * u[2] + u[3]

\* the text the date pattern matches at position i, the first alternative
\* before the second
DateAt(s, i) ==
    LET t == IF DayFirstShapes(s, i) # {} THEN Greedy(DayFirstShapes(s, i))
             ELSE Greedy(YearFirstShapes(s, i))
    IN  SubSeq(s, i, i + t[1] + t[2] + t[3] + 1)

\* re.search of the date pattern: None, or group 1 of the leftmost match
DateSearch(line) ==
    LET starts == {i \in 1..Len(line) :
                      DayFirstShapes(line, i) # {} \/ YearFirstShapes(line, i) # {}}
    IN  IF starts = {} THEN None
        ELSE Some(DateAt(line, CHOOSE i \in starts : \A j \in starts : i <= j))

\* the length of the match of \b(\d{1,2})\b at position i, or 0
NumberAt(s, i) ==
    IF ~IsDigit(At(s, i)) \/ IsWordChar(At(s, i - 1)) THEN 0
    ELSE IF DigitsAt(s, i, 2) /\ ~IsWordChar(At(s, i + 2)) THEN 2
    ELSE IF ~IsWordChar(At(s, i + 1)) THEN 1
    ELSE 0

\* re.findall(r'\b(\d{1,2})\b', line), as integers
BowelNumbers(line) ==
    LET starts == Ascending({i \in 1..Len(line) : NumberAt(line, i) > 0})
    IN  [k \in 1..Len(starts) |->
            ParseInt(SubSeq(line, starts[k], starts[k] + NumberAt(line, starts[k]) - 1))]

\* the length of the piece of 2 to 4 digits that starts at position i when
\* the pattern (\d{2,4})(unit)? is matched again and again from the left, or
\* 0: a run of digits is cut into pieces of 4, and a last piece of 1 is left
WaterPieceAt(s, i) ==
    IF ~IsDigit(At(s, i)) THEN 0
    ELSE LET rest == RunEnd(s, i) - i + 1
         IN  IF (i - RunStart(s, i)) % 4 # 0 \/ rest < 2 THEN 0
             ELSE Min(rest, 4)

\* re.findall of the water pattern on the lower-cased line, as integers
WaterMatches(line) ==
    LET starts == Ascending({i \in 1..Len(line) : WaterPieceAt(line, i) > 0})
    IN  [k \in 1..Len(starts) |->
            ParseInt(SubSeq(line, starts[k], starts[k] + WaterPieceAt(line, starts[k]) - 1))]

\* the text behind position i starts with % or percent
PercentSign(s, i) ==
    At(s, i + 1) = "%" \/ SubSeq(s, i + 1, Min(i + 7, Len(s))) = "percent"

\* the length of the match of (\d{1,3})(?:%|percent) at position i, or 0
PercentAt(s, i) ==
    IF DigitsAt(s, i, 3) /\ PercentSign(s, i + 2) THEN 3
    ELSE IF DigitsAt(s, i, 2) /\ PercentSign(s, i + 1) THEN 2
    ELSE IF DigitsAt(s, i, 1) /\ PercentSign(s, i) THEN 1
    ELSE 0

\* re.search of the percent pattern: None, or int(group 1) of the leftmost
\* match
PercentSearch(line) ==
    LET starts == {i \in 1..Len(line) : PercentAt(line, i) > 0}
        first == CHOOSE i \in starts : \A j \in starts : i <= j
    IN  IF starts = {} THEN None
        ELSE Some(ParseInt(SubSeq(line, first, first + PercentAt(line, first) - 1)))

\* (\d+)/(\d+) matches at position i
FractionAt(s, i) ==
    /\ IsDigit(At(s, i))
    /\ At(s, RunEnd(s, i) + 1) = "/"
    /\ IsDigit(At(s, RunEnd(s, i) + 2))

\* re.search of the fraction pattern: None, or numerator and denominator of
\* the leftmost match
FractionSearch(line) ==
    LET starts == {i \in 1..Len(line) : FractionAt(line, i)}
        first == CHOOSE i \in starts : \A j \in starts : i <= j
        slash == RunEnd(line, first) + 1
    IN  IF starts = {} THEN None
        ELSE Some(<<ParseInt(SubSeq(line, first, slash - 1)),
                    ParseInt(SubSeq(line, slash + 1, RunEnd(line, slash + 1)))>>)

RECURSIVE FirstValidFrom(_, _, _)
\* the loop over the candidates from the k-th on, valid[k] telling whether
\* the k-th is valid: the first valid one is added and ends the loop
FirstValidFrom(candidates, valid, k) ==
    IF k > Len(candidates) THEN <<>>
    ELSE IF valid[k] THEN <<candidates[k]>>
    ELSE FirstValidFrom(candidates, valid, k + 1)

\* the bowel counts a line adds: lines 74-80
BowelOfLine(line) ==
    IF AnyIn(BOWEL_MOVEMENT_CONFIG.keywords, Lower(line))
    THEN LET numbers == BowelNumbers(line)
         IN  FirstValidFrom(numbers,
                            [k \in 1..Len(numbers) |-> is_valid_bowel_movement(numbers[k])],
                            1)
    ELSE <<>>

\* the water amounts a line adds: lines 83-89
WaterOfLine(line) ==
    IF AnyIn(WATER_INTAKE_CONFIG.keywords, Lower(line))
    THEN LET water_matches == WaterMatches(Lower(line))
         IN  FirstValidFrom(water_matches,
                            [k \in 1..Len(water_matches) |->
                                is_valid_water_intake(water_matches[k])],
                            1)
    ELSE <<>>

\* int((numerator / denominator) * 100), as the floor of the exact quotient;
\* the floating-point product can fall one short of it (29/100 gives 28), not
\* for the fractions of the logs drawn
FractionPercentage(numerator, denominator) == (numerator * 100) \div denominator

\* the food percentages a line adds: lines 92-106
FoodOfLine(line) ==
    LET percent_match == PercentSearch(Lower(line))
        fraction_match == FractionSearch(line)
    IN  IF ~AnyIn(FOOD_INTAKE_CONFIG.keywords, Lower(line)) THEN <<>>
        ELSE IF percent_match # None
        THEN (IF is_valid_food_intake(percent_match[1]) THEN <<percent_match[1]>> ELSE <<>>)
        ELSE IF fraction_match # None /\ fraction_match[1][2] > 0
                /\ is_valid_food_intake(FractionPercentage(fraction_match[1][1],
                                                           fraction_match[1][2]))
        THEN <<FractionPercentage(fraction_match[1][1], fraction_match[1][2])>>
        ELSE <<>>

\* the incidents a line adds, without their date: lines 109-115
IncidentsOfLine(line) ==
    IF AnyIn(INCIDENT_CONFIG.general_keywords, Lower(line))
    THEN <<[description |-> line, severity |-> get_incident_severity(line)]>>
    ELSE <<>>

\* the records one line adds under the date current_date
Dated(values, field, current_date) ==
    [k \in 1..Len(values) |->
        IF field = "count" THEN [date |-> current_date, count |-> values[k]]
        ELSE IF field = "amount" THEN [date |-> current_date, amount |-> values[k]]
        ELSE IF field = "percentage" THEN [date |-> current_date, percentage |-> values[k]]
        ELSE [date |-> current_date, description |-> values[k].description,
              severity |-> values[k].severity]]

\* data['dates'] after a line whose date search gave date_match, with every
\* date token appended
DatesWith_Repeated(dates, date_match) ==
    IF date_match # None THEN Append(dates, date_match[1]) ELSE dates

\* data['dates'] after a line whose date search gave date_match: lines 67-70
DatesWith(dates, date_match) ==
    IF date_match # None /\ ~\E k \in 1..Len(dates) : dates[k] = date_match[1]
    THEN Append(dates, date_match[1])
    ELSE dates

\* the body of the loop with the date context kept only on lines that hold a
\* date
ExtractLine_DateNotCarried(acc, raw) ==
    LET line == Strip(raw)
        date_match == DateSearch(line)
        current_date == date_match
        data == acc.data
        dates == DatesWith(data.dates, date_match)
    IN  IF line = "" THEN acc
        ELSE IF current_date = None
        THEN [data |-> [data EXCEPT !.dates = dates], current_date |-> current_date]
        ELSE [data |->
                [bowel_movements |-> data.bowel_movements
                    \o Dated(BowelOfLine(line), "count", current_date[1]),
                 water_intake |-> data.water_intake
                    \o Dated(WaterOfLine(line), "amount", current_date[1]),
                 food_intake |-> data.food_intake
                    \o Dated(FoodOfLine(line), "percentage", current_date[1]),
                 incidents |-> data.incidents
                    \o Dated(IncidentsOfLine(line), "incident", current_date[1]),
                 dates |-> dates],
              current_date |-> current_date]

\* the body of the loop over the lines (lines 60-115): acc holds data and
\* current_date
ExtractLine(acc, raw) ==
    LET line == Strip(raw)
        date_match == DateSearch(line)
        current_date == IF date_match # None THEN date_match ELSE acc.current_date
        data == acc.data
        dates == DatesWith(data.dates, date_match)
    IN  IF line = "" THEN acc
        ELSE IF current_date = None
        THEN [data |-> [data EXCEPT !.dates = dates], current_date |-> current_date]
        ELSE [data |->
                [bowel_movements |-> data.bowel_movements
                    \o Dated(BowelOfLine(line), "count", current_date[1]),
                 water_intake |-> data.water_intake
                    \o Dated(WaterOfLine(line), "amount", current_date[1]),
                 food_intake |-> data.food_intake
                    \o Dated(FoodOfLine(line), "percentage", current_date[1]),
                 incidents |-> data.incidents
                    \o Dated(IncidentsOfLine(line), "incident", current_date[1]),
                 dates |-> dates],
              current_date |-> current_date]

RECURSIVE ExtractFrom(_, _, _)
\* the loop over lines[k..]
ExtractFrom(acc, lines, k) ==
    IF k > Len(lines) THEN acc
    ELSE ExtractFrom(ExtractLine(acc, lines[k]), lines, k + 1)

\* extract_daily_data(daily_log_content)
extract_daily_data(content) ==
    ExtractFrom([data |-> [bowel_movements |-> <<>>, water_intake |-> <<>>,
                           food_intake |-> <<>>, incidents |-> <<>>, dates |-> <<>>],
                 current_date |-> None],
                Lines(content), 1).data

----------------------------------------------------------------------------
(* The calls of the extractor and their inputs *)

\* the most lines of a log drawn
MaxLogLines == 2

\* lines of a daily log: blank, with a date in either form, without a date,
\* with candidates inside and outside the validity ranges
LogLines ==
    <<"  ",
      " 01/02/2024 BM x2, drank 1500ml ",
      "2024-03-05 fall in lounge, minor bruise",
      "Ate 3/4 of meal",
      "Meal intake 150% then 80%",
      "water 50 then 250ml, bowel 12 and 3",
      "5-6-24 stool 11, serious injury, ate 90 percent",
      "Fluid 45000 ml, food 1/0">>

RECURSIVE LogsOf(_)
\* the logs of n lines
LogsOf(n) ==
    IF n = 1 THEN {LogLines[k] : k \in 1..Len(LogLines)}
    ELSE {log \o "\n" \o LogLines[k] : log \in LogsOf(n - 1), k \in 1..Len(LogLines)}

\* longer logs: values before the first date, a date carried over lines
\* without one, and a date replaced by a later one
ContextLogs ==
    {"water 50 then 250ml, bowel 12 and 3\n 01/02/2024 BM x2, drank 1500ml \nAte 3/4 of meal",
     "Ate 3/4 of meal\n\n2024-03-05 fall in lounge, minor bruise\n\nwater 50 then 250ml, bowel 12 and 3\nAte 3/4 of meal",
     "Drank 300 ml water\n01/02/2024 settled\nAte 3/4 of meal\n5-6-24 visit\nDrank 300 ml water\nMeal intake 150% then 80%",
     "01/02/2024 BM x2\n2024-03-05 fall in lounge\n01/02/2024 drank 300 ml water\n2024-03-05 and 06/03/2024 settled"}

ExtractLogs == UNION {LogsOf(n) : n \in 1..MaxLogLines} \cup {""} \cup ContextLogs

InitExtract ==
    /\ care_plan_text = ""
    /\ log_entries = ""
    /\ weight_logs = None
    /\ height = None
    /\ resident_data = None
    /\ report = None
    /\ scored = None
    /\ formatted = None
    /\ daily_log_content \in ExtractLogs
    /\ processed_daily_log = None
    /\ called = None
    /\ daily_data = None
    /\ ApiIdle

CallExtractDailyData ==
    /\ daily_data = None
    /\ daily_data' = Some(extract_daily_data(daily_log_content))
    /\ UNCHANGED <<risk_vars, api_vars, daily_log_content, processed_daily_log, called>>

NextExtract == CallExtractDailyData

ExtractSpec == InitExtract /\ [][NextExtract]_vars

----------------------------------------------------------------------------
(* Properties of the extractor *)

Extracted == daily_data # None

\* the k-th line of the log, stripped
LogLine(k) == Strip(Lines(daily_log_content)[k])

LogLineCount == Len(Lines(daily_log_content))

\* the k-th line holds a date token
DateBearing(k) == DateSearch(LogLine(k)) # None

\* None, or the date token of the most recent date-bearing line at or before
\* line k
Context(k) ==
    LET bearing == {j \in 1..k : DateBearing(j)}
    IN  IF bearing = {} THEN None
        ELSE DateSearch(LogLine(CHOOSE j \in bearing : \A i \in bearing : j >= i))

RECURSIVE Flatten(_)
Flatten(seqs) == IF seqs = <<>> THEN <<>> ELSE Head(seqs) \o Flatten(Tail(seqs))

\* the values the k-th line yields for a category, on its own
YieldOfLine(category, k) ==
    IF category = "count" THEN BowelOfLine(LogLine(k))
    ELSE IF category = "amount" THEN WaterOfLine(LogLine(k))
    ELSE IF category = "percentage" THEN FoodOfLine(LogLine(k))
    ELSE IncidentsOfLine(LogLine(k))

\* the signals of a category when every line under a date context adds its
\* values under the date token of that context, and no other line adds any
InContext(category) ==
    Flatten([k \in 1..LogLineCount |->
                IF Context(k) = None THEN <<>>
                ELSE Dated(YieldOfLine(category, k), category, Context(k)[1])])

PercentMatches(line) ==
    LET starts == Ascending({i \in 1..Len(line) :
                                PercentAt(line, i) > 0 /\ PercentAt(line, i - 1) = 0})
    IN  [k \in 1..Len(starts) |->
            ParseInt(SubSeq(line, starts[k], starts[k] + PercentAt(line, starts[k]) - 1))]

\* the candidates of a category on a line: the numbers its pattern matches,
\* from the left; for food the percentages, or without any the fraction
Candidates(category, line) ==
    IF category = "count" THEN BowelNumbers(line)
    ELSE IF category = "amount" THEN WaterMatches(Lower(line))
    ELSE IF PercentMatches(Lower(line)) # <<>> THEN PercentMatches(Lower(line))
    ELSE IF FractionSearch(line) # None /\ FractionSearch(line)[1][2] > 0
    THEN <<FractionPercentage(FractionSearch(line)[1][1], FractionSearch(line)[1][2])>>
    ELSE <<>>

InRange(category, value) ==
    IF category = "count" THEN 0 <= value /\ value <= 10
    ELSE IF category = "amount" THEN 100 <= value /\ value <= 4000
    ELSE 0 <= value /\ value <= 100

Keywords(category) ==
    IF category = "count" THEN BOWEL_MOVEMENT_CONFIG.keywords
    ELSE IF category = "amount" THEN WATER_INTAKE_CONFIG.keywords
    ELSE FOOD_INTAKE_CONFIG.keywords

\* at most one value: the first candidate of the line that is in range
FirstInRange(category, line) ==
    LET candidates == Candidates(category, line)
        good == {k \in 1..Len(candidates) : InRange(category, candidates[k])}
    IN  IF ~AnyIn(Keywords(category), Lower(line)) \/ good = {} THEN <<>>
        ELSE <<candidates[CHOOSE k \in good : \A j \in good : k <= j]>>

\* the values of a category when every line under a date context gives its
\* first candidate in range
Claimed(category) ==
    Flatten([k \in 1..LogLineCount |->
                IF Context(k) = None THEN <<>> ELSE FirstInRange(category, LogLine(k))])

\* C15: a line that matches the keywords of a numeric category gives at most
\* one signal, whose value is the first candidate of the line in the validity
\* range of the category, also behind a candidate out of range; no value out
\* of range is emitted.
C15_FirstValidCandidate ==
    Extracted =>
        /\ [n \in 1..Len(daily_data[1].bowel_movements) |->
               daily_data[1].bowel_movements[n].count] = Claimed("count")
        /\ [n \in 1..Len(daily_data[1].water_intake) |->
               daily_data[1].water_intake[n].amount] = Claimed("amount")
        /\ [n \in 1..Len(daily_data[1].food_intake) |->
               daily_data[1].food_intake[n].percentage] = Claimed("percentage")

----------------------------------------------------------------------------
(* The medication item, the reported maximum, the formatter, PEEP and the    *)
(* Cornell scale: properties of Spec                                         *)

\* the Falls scorer gave the point of the medication item: its evidence
\* holds the entry of the threshold met
ScorerMedicationPoint ==
    \E k \in 1..Len(ScoredResult.evidence) :
        ScoredResult.evidence[k]
            = "Medications: " \o Str(_count_medications(care_plan_text))
                \o " prescribed (>=4 threshold met)"

\* the 'medications' item of the Falls Screening form in the report scores 1
FormMedicationPoint ==
    ItemOf(Assessments["falls_screening"], "medications").ai_value = Some(1)

\* C16: the Falls medication item scores 1 exactly when the medication count
\* is 4 or more, the count being the number of occurrences of the medication
\* keywords, halved and capped at 10; the Falls scorer and the 'medications'
\* form item of the aggregator use this same count.
C16_MedicationCount ==
    /\ ScoredBy("falls_screening") => (ScorerMedicationPoint <=> FourMedications)
    /\ (Returned /\ "falls_screening" \in Assessed) =>
          (FormMedicationPoint <=> FourMedications)

\* C17: when an instrument has form items whose detected value is null, the
\* maximum score reported for it is reduced: it is below the nominal maximum
\* of the instrument.
C17_MaxScoreReduced ==
    Returned =>
        \A t \in Assessed :
            NullItems(Assessments[t]) # {} =>
                Assessments[t].max_score < forms[t].max_score

Formatted == formatted # None /\ ~formatted[1].raised

\* the text holds what the claim of C18 lists for a non-error instrument
RendersAssessment(text, e) ==
    /\ In("### " \o e.tool_name, text)
    /\ In("**Score:** " \o Str(e.score) \o "/", text)
    /\ In(" - **" \o e.risk_level \o "**", text)
    /\ In("**Next Review:** " \o Str(e.next_review_date), text)

\* C18: for any report returned by calculate_all_assessments the formatter
\* returns a Markdown text without failing; the text holds the three counts
\* of the risk overview, every priority alert and, for each instrument that
\* is not an error result, its score, risk level and next review date.
C18_FormatterRenders ==
    formatted # None =>
        /\ ~formatted[1].raised
        /\ In("- High Risk Areas: " \o Str(Summary.high_risk_count), formatted[1].value)
        /\ In("- Medium Risk Areas: " \o Str(Summary.medium_risk_count), formatted[1].value)
        /\ In("- Low Risk Areas: " \o Str(Summary.low_risk_count), formatted[1].value)
        /\ \A k \in 1..Len(Summary.priority_alerts) :
              In("- " \o Summary.priority_alerts[k].alert, formatted[1].value)
        /\ \A t \in Assessed : RendersAssessment(formatted[1].value, Assessments[t])

\* the tiers of PEEP, as the specification states them
ImmobileTier == AnyIn(<<"bedbound", "wheelchair", "immobile">>, CombinedText)

CognitiveTier == AnyIn(<<"confusion", "dementia", "cognitive">>, CombinedText)

MobilityAidTier == AnyIn(<<"walking aid", "slow mobility">>, CombinedText)

\* C19: the PEEP score is one of 1, 2, 3, 4 and is a single overriding tier:
\* 4 with any bedbound/wheelchair/immobile keyword; otherwise 3 with any
\* cognitive-impairment keyword; otherwise 2 with any mobility-aid or
\* slow-mobility keyword; otherwise 1, whatever keywords of lower tiers are
\* also present.
C19_PeepTier ==
    ScoredBy("peep") =>
        /\ ScoredResult.score \in 1..4
        /\ ImmobileTier => ScoredResult.score = 4
        /\ (~ImmobileTier /\ CognitiveTier) => ScoredResult.score = 3
        /\ (~ImmobileTier /\ ~CognitiveTier /\ MobilityAidTier) => ScoredResult.score = 2
        /\ (~ImmobileTier /\ ~CognitiveTier /\ ~MobilityAidTier) => ScoredResult.score = 1

\* PEEP was scored for a text with keywords of all three tiers, and for it
\* the score is the one of the highest tier
C19_Witness ==
    /\ ScoredBy("peep")
    /\ ImmobileTier /\ CognitiveTier /\ MobilityAidTier
    /\ ScoredResult.score = 4

\* the number of the keywords that occur in the combined text
KeywordCount(keywords) == Len(Found(keywords, CombinedText))

MoodCount == KeywordCount(<<"anxious", "sad", "tearful", "irritable", "worried">>)

BehaviourCount == KeywordCount(<<"agitated", "slow", "withdrawn", "lost interest">>)

PhysicalCount ==
    KeywordCount(<<"appetite loss", "weight loss", "tired", "fatigue", "no energy">>)

SleepDisturbance == AnyIn(<<"sleep", "insomnia", "waking", "restless night">>, CombinedText)

CornellExpected ==
    Min(2 * MoodCount, 8) + Min(2 * BehaviourCount, 8) + Min(2 * PhysicalCount, 6)
    + (IF SleepDisturbance THEN 4 ELSE 0)

CornellLevel(score) ==
    IF score >= 18 THEN "Definite Depression"
    ELSE IF score >= 10 THEN "Probable Depression"
    ELSE "Low Risk"

\* C20: the Cornell Depression score is min(2 * mood keywords, 8) + min(2 *
\* behaviour keywords, 8) + min(2 * physical symptoms, 6) + 4 with any
\* sleep-disturbance keyword, and the level is Definite Depression from 18,
\* Probable Depression from 10 and Low Risk below.
C20_CornellScore ==
    ScoredBy("cornell_depression") =>
        /\ ScoredResult.score = CornellExpected
        /\ ScoredResult.risk_level = CornellLevel(ScoredResult.score)

\* the Cornell scale was scored for a text where the caps of the mood and the
\* physical group bind, and the level is Definite Depression
C20_Witness ==
    /\ ScoredBy("cornell_depression")
    /\ 2 * MoodCount > 8 /\ 2 * PhysicalCount > 6
    /\ ScoredResult.score = 26
    /\ ScoredResult.risk_level = "Definite Depression"

----------------------------------------------------------------------------
(* The footer and the columns of a reduced text: properties of ReducerSpec   *)

\* the text ends with the given suffix
EndsWith(text, suffix) ==
    /\ Len(text) >= Len(suffix)
    /\ SubSeq(text, Len(text) - Len(suffix) + 1, Len(text)) = suffix

\* the reduced text carries a compression summary: the marker, the row and
\* column counts of the original, and the lines of the reduced counts and of
\* the ratio, the last of them ending the text
FooterClaim(original, reduced) ==
    LET rows == Lines(original)
        columns == CsvRow(rows[1])
    IN  /\ In("\n\n[COMPRESSION SUMMARY]\nOriginal: " \o Str(Len(rows)) \o " rows x "
                  \o Str(Len(columns)) \o " columns\nCompressed: ", reduced)
        /\ In(" columns\nCompression ratio: ", reduced)
        /\ EndsWith(reduced, "\n")

\* C21: the reduced output of the reducer always ends with a compression
\* summary that records the original and the reduced row and column counts
\* and the ratio.  Stated of every direct reduction and of every log the
\* analyze handler prepares whose text was reduced.
C21_SummaryFooter ==
    /\ (Compressed /\ CompressedText # daily_log_content) =>
          FooterClaim(daily_log_content, CompressedText)
    /\ (Processed /\ processed_daily_log[1] # daily_log_content) =>
          FooterClaim(daily_log_content, processed_daily_log[1])

\* the column entries of a profile that state a strategy: the profile of the
\* effective analyze_csv_structure lists bare column names and states none
ColumnInfos(profile) ==
    IF "has_header" \in DOMAIN profile \/ "columns" \notin DOMAIN profile THEN <<>>
    ELSE profile.columns

\* the header qualifies: the first column entry of its name has the strategy
\* keep_all or sample
Qualifies(header, profile) ==
    LET infos == ColumnInfos(profile)
        named == {k \in 1..Len(infos) : infos[k].name = header}
    IN  /\ named # {}
        /\ infos[CHOOSE k \in named : \A j \in named : k <= j].compression_strategy
              \in {"keep_all", "sample"}

\* the headers of the original that qualify, in their order
QualifyingHeaders(original, profile) ==
    SelectSeq(CsvRow(Lines(original)[1]), LAMBDA header : Qualifies(header, profile))

\* the header row of the reduced text is the qualifying headers or, when
\* none qualifies, a non-empty run of the first headers; it is never empty
ColumnClaim(original, reduced, profile) ==
    LET headers == CsvRow(Lines(original)[1])
        kept == CsvRow(Lines(reduced)[1])
        qualifying == QualifyingHeaders(original, profile)
    IN  /\ Len(kept) >= 1
        /\ qualifying # <<>> => kept = qualifying
        /\ qualifying = <<>> =>
              \E n \in 1..Len(headers) : kept = SubSeq(headers, 1, n)

\* C22: reduction keeps exactly the columns whose strategy in the profile is
\* keep_all or sample; when none qualifies it falls back to the first few
\* columns; every reduced output retains at least one column.  Stated of
\* every direct reduction under a profile without error and of every log the
\* analyze handler prepares whose text was reduced.
C22_ColumnsKept ==
    /\ (Compressed /\ "error" \notin DOMAIN Profile
            /\ CompressedText # daily_log_content) =>
          ColumnClaim(daily_log_content, CompressedText, Profile)
    /\ (Processed /\ processed_daily_log[1] # daily_log_content) =>
          ColumnClaim(daily_log_content, processed_daily_log[1],
                      analyze_csv_structure(daily_log_content))

----------------------------------------------------------------------------
(* The dates of the extractor: a property of ExtractSpec                     *)

\* the date tokens the extractor recognises, in the order of the lines: the
\* first date of every date-bearing line
DateTokens ==
    Flatten([k \in 1..LogLineCount |->
                IF LogLine(k) # "" /\ DateBearing(k)
                THEN <<DateSearch(LogLine(k))[1]>> ELSE <<>>])

\* the positions of a sequence whose value occurs at no earlier position
FirstSeenAt(seq) == {k \in 1..Len(seq) : \A j \in 1..(k - 1) : seq[j] # seq[k]}

\* the values of a sequence, each once, in the order of first appearance
FirstSeen(seq) == LET at == Ascending(FirstSeenAt(seq))
                  IN  [k \in 1..Len(at) |-> seq[at[k]]]

\* the dates the emitted signals carry
SignalDates ==
    {daily_data[1].bowel_movements[k].date : k \in 1..Len(daily_data[1].bowel_movements)}
    \cup {daily_data[1].water_intake[k].date : k \in 1..Len(daily_data[1].water_intake)}
    \cup {daily_data[1].food_intake[k].date : k \in 1..Len(daily_data[1].food_intake)}
    \cup {daily_data[1].incidents[k].date : k \in 1..Len(daily_data[1].incidents)}

----------------------------------------------------------------------------
(* The instrument list and the Abbey Pain scale: properties of Spec          *)

\* the weight series and the height are absent or well-formed: positive
\* numbers
OrdinaryInput ==
    /\ weight_logs = None \/ \A k \in 1..Len(weight_logs[1]) : weight_logs[1][k] > 0
    /\ height = None \/ height[1] > 0

\* C24: for string inputs with a well-formed or absent weight series, height
\* and metadata the aggregator gives a non-error result for each of the eight
\* instruments: every name in assessment_tools has a standard form, and no
\* instrument is reported as 'Unable to assess'.
C24_EveryInstrumentAssessed ==
    (Returned /\ OrdinaryInput) =>
        \A t \in Tools :
            /\ t \in DOMAIN forms
            /\ ~IsErrorResult(Assessments[t])
            /\ Assessments[t].risk_level # "Unable to assess"

\* the number of the groups vocalisation, facial expression, body language
\* and behavioural change with a keyword in the combined text
AbbeyGroups ==
    Points(AnyIn(<<"crying", "moaning", "groaning", "shouting", "calling out">>, CombinedText))
    + Points(AnyIn(<<"grimacing", "frowning", "tense", "distressed", "wincing">>, CombinedText))
    + Points(AnyIn(<<"restless", "fidgeting", "guarding", "withdrawn", "agitated">>, CombinedText))
    + Points(AnyIn(<<"confused", "refusing", "aggressive", "pattern change">>, CombinedText))

AbbeyPainKeyword ==
    AnyIn(<<"pain", "discomfort", "sore", "ache", "hurts", "paracetamol", "analgesic">>,
          CombinedText)

\* C25: the Abbey Pain score is 2 times the number of matched groups plus 1
\* with a pain or analgesic keyword; it never exceeds 9, so the scorer never
\* returns 'Severe Pain' and returns 'Moderate Pain' only for the scores 8
\* and 9, although max_score is reported as 18.
C25_AbbeyScoreAtMostNine ==
    ScoredBy("abbey_pain") =>
        /\ ScoredResult.score = 2 * AbbeyGroups + Points(AbbeyPainKeyword)
        /\ ScoredResult.score <= 9
        /\ ScoredResult.risk_level # "Severe Pain"
        /\ ScoredResult.risk_level = "Moderate Pain" <=> ScoredResult.score \in {8, 9}
        /\ ScoredResult.max_score = 18

\* the Abbey scale was scored for a text with keywords of all four groups
\* and a pain keyword: the score is 9 and the level Moderate Pain
C25_Witness ==
    /\ ScoredBy("abbey_pain")
    /\ AbbeyGroups = 4 /\ AbbeyPainKeyword
    /\ ScoredResult.score = 9
    /\ ScoredResult.risk_level = "Moderate Pain"

----------------------------------------------------------------------------
(* The REST API (src/api/v1/endpoints.py) over the rows of src/models.py.    *)
(* A JSON body is None (no JSON sent) or a dict, a function from its keys.   *)
(* A timestamp is the value of the server clock now.  A response is its      *)
(* handler, its request, its status code and its timestamp.                  *)

\* the latest value of the clock
MaxNow == 2

\* the most calls made of the handlers that run in one step
MaxCalls == 3

\* time passes
Tick ==
    /\ now < MaxNow
    /\ now' = now + 1

\* api_response(success, data, error, status_code), as the log of responses
\* keeps it
api_response(handler, request, status_code) ==
    [handler |-> handler, request |-> request, status_code |-> status_code,
     timestamp |-> now]

----------------------------------------------------------------------------
(* Care tasks: create_care_tasks and update_care_task.  Of the columns that  *)
(* update_care_task copies from the body with setattr, the model keeps       *)
(* status, priority and notes; title, description and assigned_to are set    *)
(* the same way and read by nothing.                                         *)

\* the row create_care_tasks stores, with the column defaults of CareTask
NewTask ==
    [priority |-> "medium", status |-> "pending", due_date |-> None,
     completed_at |-> None, notes |-> None, updated_at |-> 0]

\* a run of n digits at position i of s
DigitRun(s, i, n) == \A k \in i..(i + n - 1) : IsDigit(At(s, k))

\* datetime.strptime(s, '%Y-%m-%d %H:%M') for a text with zero-padded
\* fields: the parsed text, or ValueError for a text of another shape or
\* with a field out of range
strptime(s) ==
    IF /\ Len(s) = 16
       /\ DigitRun(s, 1, 4) /\ At(s, 5) = "-" /\ DigitRun(s, 6, 2) /\ At(s, 8) = "-"
       /\ DigitRun(s, 9, 2) /\ At(s, 11) = " " /\ DigitRun(s, 12, 2)
       /\ At(s, 14) = ":" /\ DigitRun(s, 15, 2)
       /\ ParseInt(SubSeq(s, 1, 4)) >= 1
       /\ ParseInt(SubSeq(s, 6, 7)) \in 1..12
       /\ ParseInt(SubSeq(s, 9, 10)) \in 1..31
       /\ ParseInt(SubSeq(s, 12, 13)) \in 0..23
       /\ ParseInt(SubSeq(s, 15, 16)) \in 0..59
    THEN Ok(s)
    ELSE Raise("ValueError")

\* the fields update_care_task copies from the body
TaskFields == {"priority", "status", "notes"}

\* the try block of update_care_task for a task that was found (lines
\* 606-622): the row to commit, or the exception raised
UpdateTask(row, data) ==
    IF data = None THEN Raise("TypeError")
    ELSE LET body == data[1]
             copied == [f \in DOMAIN row |->
                           IF f \in TaskFields /\ f \in DOMAIN body
                           THEN (IF f = "notes" THEN Some(body[f]) ELSE body[f])
                           ELSE row[f]]
             due == IF "due_date" \in DOMAIN body /\ body.due_date # ""
                    THEN strptime(body.due_date) ELSE Ok("")
             status == Get(body, "status", "")
         IN  IF due.raised THEN due
             ELSE Ok([copied EXCEPT
                        !.due_date = IF "due_date" \in DOMAIN body /\ body.due_date # ""
                                     THEN Some(due.value) ELSE @,
                        !.completed_at =
                            IF status = "completed" /\ copied.completed_at = None
                            THEN Some(now)
                            ELSE IF status # "completed" THEN None ELSE @,
                        !.updated_at = now])

\* the bodies sent to update_care_task
TaskBodies ==
    {None, Some(<<>>),
     Some([status |-> "completed"]), Some([status |-> "in_progress"]),
     Some([status |-> "cancelled"]),
     Some([notes |-> "checked"]),
     Some([status |-> "completed", notes |-> "done", priority |-> "high"]),
     Some([due_date |-> "2024-05-01 09:30"]), Some([due_date |-> "tomorrow"]),
     Some([status |-> "completed", due_date |-> "2024-13-01 09:30"])}

\* update_care_task(task_id) for the task of the user (1) or for a task
\* that is not theirs (2)
update_care_task ==
    /\ task # None
    /\ Len(responses) < MaxCalls
    /\ \E task_id \in {1, 2}, data \in TaskBodies :
          IF task_id # 1
          THEN /\ responses' = Append(responses, api_response("update_care_task", task_id, 404))
               /\ UNCHANGED task
          ELSE LET updated == UpdateTask(task[1], data)
               IN  IF updated.raised
                   THEN /\ responses' = Append(responses,
                                               api_response("update_care_task", task_id, 500))
                        /\ UNCHANGED task
                   ELSE /\ responses' = Append(responses,
                                               api_response("update_care_task", task_id, 200))
                        /\ task' = Some(updated.value)
    /\ UNCHANGED <<risk_vars, log_vars, now, user, resident, link, requests>>

TickTask == Tick /\ UNCHANGED <<risk_vars, log_vars, task, user, resident, link, requests, responses>>

\* a task was created and is updated
InitTask ==
    /\ RiskIdle /\ LogIdle
    /\ now = 0
    /\ task = Some(NewTask)
    /\ user = None /\ resident = None /\ link = None
    /\ requests = <<>> /\ responses = <<>>

NextTask ==
    \/ update_care_task
    \/ TickTask

TaskSpec == InitTask /\ [][NextTask]_vars

\* C26: after any sequence of update_care_task calls on a task, completed_at
\* is set if and only if the status of the task is 'completed'; an update
\* that does not mention status leaves completed_at of a completed task set.
C26_CompletedAtIffCompleted ==
    task # None => (task[1].completed_at # None <=> task[1].status = "completed")

----------------------------------------------------------------------------
(* Usage quota and care plans: analyze, generate_care_plan and               *)
(* save_care_plan, run by concurrent requests of one user for one resident.  *)
(* The clock counts calendar months.  Every request has its own database     *)
(* session: a row it has loaded keeps its loaded values until the session    *)
(* commits, and a commit writes the columns the request has set.  A request  *)
(* takes a step where it waits for the AI service and a step from reading    *)
(* the history to the commit.                                                *)

\* the most concurrent requests
MaxRequests == 2

Requests == 1..MaxRequests

\* the request has not been sent yet
Unsent(r) ==
    /\ r \notin DOMAIN requests
    /\ \A k \in 1..Len(responses) : responses[k].request # r

\* the request is at the given position of the given handler
At_(r, handler, pc) ==
    /\ r \in DOMAIN requests
    /\ requests[r].handler = handler
    /\ requests[r].pc = pc

\* the map of the requests in progress without the request r
Without(r) == [q \in DOMAIN requests \ {r} |-> requests[q]]

\* the requests in progress with request r at the given record
With(r, record) == [q \in DOMAIN requests \cup {r} |-> IF q = r THEN record ELSE requests[q]]

\* the reset of User.get_remaining_usage: the row after lines 40-44
MonthlyReset(row) ==
    IF row.last_usage_reset # now
    THEN [row EXCEPT !.usage_count = 0, !.last_usage_reset = now]
    ELSE row

\* the value User.get_remaining_usage returns for the row after the reset:
\* None for float('inf'), or the uses left of the 10 of the month
get_remaining_usage(row) ==
    IF row.is_premium THEN None ELSE Some(Max(0, 10 - row.usage_count))

\* current_user.get_remaining_usage() <= 0
UsageExceeded(row) ==
    get_remaining_usage(row) # None /\ get_remaining_usage(row)[1] <= 0

\* the usage_count the session of a request holds after the quota check: the
\* loaded value, or None when the reset has committed and expired the row
LoadedUsage(row) ==
    IF row.last_usage_reset # now THEN None ELSE Some(row.usage_count)

\* User.increment_usage in a session that holds the loaded usage_count (or
\* None after a commit of the session): self.usage_count += 1 and commit
increment_usage(row, loaded) ==
    [row EXCEPT !.usage_count = (IF loaded = None THEN @ ELSE loaded[1]) + 1]

\* the request ends with a response
Respond(r, handler, status_code) ==
    /\ responses' = Append(responses, api_response(handler, r, status_code))
    /\ requests' = Without(r)

\* analyze, lines 324-334: the quota check and the validation of the body
StartAnalyze(r) ==
    /\ Unsent(r) /\ user # None
    /\ \E daily_log \in {"", "Ate well."} :
          /\ user' = Some(MonthlyReset(user[1]))
          /\ IF UsageExceeded(MonthlyReset(user[1]))
             THEN Respond(r, "analyze", 403)
             ELSE IF daily_log = ""
             THEN Respond(r, "analyze", 400)
             ELSE /\ requests' = With(r, [handler |-> "analyze", pc |-> "ai",
                                          usage_count |-> LoadedUsage(user[1])])
                  /\ UNCHANGED responses
    /\ UNCHANGED <<risk_vars, log_vars, now, task, resident, link>>

\* analyze, lines 368-378: call_deepseek_api returns or raises; after it the
\* usage is incremented and the remaining usage is read for the response
FinishAnalyze(r) ==
    /\ At_(r, "analyze", "ai")
    /\ \E raised \in BOOLEAN :
          IF raised
          THEN /\ Respond(r, "analyze", 500)
               /\ UNCHANGED user
          ELSE /\ user' = Some(MonthlyReset(increment_usage(user[1], requests[r].usage_count)))
               /\ Respond(r, "analyze", 200)
    /\ UNCHANGED <<risk_vars, log_vars, now, task, resident, link>>

\* generate_care_plan, lines 383-397: the quota check, the validation of the
\* body and the lookup of the resident (1 is the resident of the user)
StartGenerate(r) ==
    /\ Unsent(r) /\ user # None /\ resident # None
    /\ \E resident_id \in {None, Some(1), Some(2)} :
          /\ user' = Some(MonthlyReset(user[1]))
          /\ IF UsageExceeded(MonthlyReset(user[1]))
             THEN Respond(r, "generate_care_plan", 403)
             ELSE IF resident_id = None
             THEN Respond(r, "generate_care_plan", 400)
             ELSE IF resident_id # Some(1)
             THEN Respond(r, "generate_care_plan", 404)
             ELSE /\ requests' = With(r, [handler |-> "generate_care_plan", pc |-> "ai",
                                          usage_count |-> LoadedUsage(user[1])])
                  /\ UNCHANGED responses
    /\ UNCHANGED <<risk_vars, log_vars, now, task, resident, link>>

\* generate_care_plan, lines 436-449: call_deepseek_api returns the plan or
\* raises; the plan is set on the resident of the session and the history
\* row is built with the version read from the history
Generate(r) ==
    /\ At_(r, "generate_care_plan", "ai")
    /\ \E raised \in BOOLEAN :
          IF raised
          THEN Respond(r, "generate_care_plan", 500)
          ELSE /\ requests' = With(r, [handler |-> "generate_care_plan", pc |-> "commit",
                                       care_plan |-> "AI plan " \o Str(r),
                                       version |-> Len(resident[1].care_plan_history) + 1])
               /\ UNCHANGED responses
    /\ UNCHANGED <<risk_vars, log_vars, now, task, user, resident, link>>

\* the resident row and its history after the commit of a request
Saved(row, request) ==
    [row EXCEPT !.current_care_plan = Some(request.care_plan),
                !.care_plan_history = Append(@, [content |-> request.care_plan,
                                                 version |-> request.version])]

\* generate_care_plan, lines 451-460: the commit, then increment_usage on
\* the user row the commit has expired, then the response
CommitGenerate(r) ==
    /\ At_(r, "generate_care_plan", "commit")
    /\ resident' = Some(Saved(resident[1], requests[r]))
    /\ user' = Some(MonthlyReset(increment_usage(user[1], None)))
    /\ Respond(r, "generate_care_plan", 200)
    /\ UNCHANGED <<risk_vars, log_vars, now, task, link>>

\* save_care_plan, lines 488-510: the lookup of the resident, the validation
\* of the body, the plan set on the resident of the session and the history
\* row built with the version read from the history
StartSave(r) ==
    /\ Unsent(r) /\ resident # None
    /\ \E resident_id \in {1, 2}, care_plan \in {None, Some("Plan " \o Str(r))} :
          IF resident_id # 1
          THEN Respond(r, "save_care_plan", 404)
          ELSE IF care_plan = None
          THEN Respond(r, "save_care_plan", 400)
          ELSE /\ requests' = With(r, [handler |-> "save_care_plan", pc |-> "commit",
                                       care_plan |-> care_plan[1],
                                       version |-> Len(resident[1].care_plan_history) + 1])
               /\ UNCHANGED responses
    /\ UNCHANGED <<risk_vars, log_vars, now, task, user, resident, link>>

\* save_care_plan, lines 512-518: the commit and the response
CommitSave(r) ==
    /\ At_(r, "save_care_plan", "commit")
    /\ resident' = Some(Saved(resident[1], requests[r]))
    /\ Respond(r, "save_care_plan", 200)
    /\ UNCHANGED <<risk_vars, log_vars, now, task, user, link>>

\* a month passes
TickCare == Tick /\ UNCHANGED <<risk_vars, log_vars, task, user, resident, link, requests, responses>>

\* the responses of n earlier successful calls of analyze in month 0
EarlierCalls(n) == [k \in 1..n |-> [handler |-> "analyze", request |-> 0,
                                     status_code |-> 200, timestamp |-> 0]]

\* a user, free or premium, who has made no, nine or ten calls this month,
\* and a resident of theirs without a care plan
InitCare ==
    /\ RiskIdle /\ LogIdle
    /\ now = 0
    /\ task = None /\ link = None
    /\ \E is_premium \in BOOLEAN, usage_count \in {0, 9, 10} :
          /\ user = Some([is_premium |-> is_premium, usage_count |-> usage_count,
                          last_usage_reset |-> 0])
          /\ responses = EarlierCalls(usage_count)
    /\ resident = Some([current_care_plan |-> None, care_plan_history |-> <<>>])
    /\ requests = <<>>

NextCare ==
    \/ \E r \in Requests : StartAnalyze(r)
    \/ \E r \in Requests : FinishAnalyze(r)
    \/ \E r \in Requests : StartGenerate(r)
    \/ \E r \in Requests : Generate(r)
    \/ \E r \in Requests : CommitGenerate(r)
    \/ \E r \in Requests : StartSave(r)
    \/ \E r \in Requests : CommitSave(r)
    \/ TickCare

CareSpec == InitCare /\ [][NextCare]_vars

\* the successful calls of analyze and generate_care_plan answered in month m
SuccessfulCalls(m) ==
    {k \in 1..Len(responses) :
        /\ responses[k].handler \in {"analyze", "generate_care_plan"}
        /\ responses[k].status_code = 200
        /\ responses[k].timestamp = m}

\* C27: a user who is not premium never gets more than 10 successful analyze
\* or generate-care-plan calls within one calendar month, for every
\* interleaving of concurrent requests of the user.
C27_QuotaNeverExceeded ==
    (user # None /\ ~user[1].is_premium) =>
        \A m \in 0..MaxNow : Cardinality(SuccessfulCalls(m)) <= 10

\* the step sends a response with status 200 of one of the given handlers
Succeeds(handlers) ==
    /\ Len(responses') = Len(responses) + 1
    /\ responses'[Len(responses')].status_code = 200
    /\ responses'[Len(responses')].handler \in handlers

\* C28: a request that does not succeed leaves the usage_count of the user
\* and the care plan and history of the resident unchanged, and usage_count
\* increases by exactly 1 per successful analyze or generate-care-plan
\* request: usage_count changes only in a step that answers such a request
\* with success, and then by exactly 1; the resident changes only in a step
\* that answers a generate-care-plan or save request with success.
C28_FailedRequestsChangeNothing ==
    [][(user # None /\ resident # None) =>
          /\ Succeeds({"analyze", "generate_care_plan"}) <=>
                user'[1].usage_count # user[1].usage_count
          /\ user'[1].usage_count # user[1].usage_count =>
                user'[1].usage_count = user[1].usage_count + 1
          /\ resident' # resident => Succeeds({"generate_care_plan", "save_care_plan"})]_vars

\* C29: the history entries of a resident carry the versions 1, 2, ..., n
\* with no duplicate and no gap, and the entry with the highest version has
\* the content of current_care_plan, for every interleaving of concurrent
\* saves for the resident.
C29_VersionsWithoutGap ==
    resident # None =>
        LET history == resident[1].care_plan_history
        IN  /\ \A k \in 1..Len(history) : history[k].version = k
            /\ history # <<>> =>
                  resident[1].current_care_plan = Some(history[Len(history)].content)

----------------------------------------------------------------------------
(* Shared dashboards: authenticate_share_access and                          *)
(* get_shared_dashboard_data, called by visitors without a login.  The       *)
(* request field of a response names the visitor.  A password hash is        *)
(* modelled by the password it was made of: check_password_hash accepts      *)
(* exactly that password.                                                    *)

Visitors == {"relative", "stranger"}

\* the share_token of the link, and a token of no link
ShareTokens == {"token-of-link", "other-token"}

\* ShareableLink.set_password(password): the hash stored
generate_password_hash(password) == [hash_of |-> password]

\* ShareableLink.check_password(password)
check_password(row, password) == row.password_hash.hash_of = password

\* ShareableLink.is_expired()
is_expired(row) == row.expires_date # None /\ now > row.expires_date[1]

\* ShareableLink.query.filter_by(share_token=share_token, is_active=True)
\* .first(): None or the row
ActiveLink(share_token) ==
    IF link # None /\ link[1].share_token = share_token /\ link[1].is_active
    THEN link ELSE None

\* authenticate_share_access(share_token) with a JSON body (None, or a dict
\* with or without a password)
authenticate_share_access ==
    /\ Len(responses) < MaxCalls
    /\ \E visitor \in Visitors, share_token \in ShareTokens,
          data \in {None, Some(<<>>), Some([password |-> ""]),
                    Some([password |-> "family2024"]), Some([password |-> "guess"])} :
          LET password == IF data = None THEN "" ELSE Get(data[1], "password", "")
              found == ActiveLink(share_token)
              Answer(status_code) ==
                  responses' = Append(responses,
                                      api_response("authenticate_share_access",
                                                   visitor, status_code))
          IN  IF data = None THEN Answer(500) /\ UNCHANGED link
              ELSE IF password = "" THEN Answer(400) /\ UNCHANGED link
              ELSE IF found = None \/ is_expired(found[1])
              THEN Answer(404) /\ UNCHANGED link
              ELSE IF check_password(found[1], password)
              THEN /\ link' = Some([found[1] EXCEPT !.access_count = @ + 1])
                   /\ Answer(200)
              ELSE Answer(401) /\ UNCHANGED link
    /\ UNCHANGED <<risk_vars, log_vars, now, task, user, resident, requests>>

\* get_shared_dashboard_data(share_token)
get_shared_dashboard_data ==
    /\ Len(responses) < MaxCalls
    /\ \E visitor \in Visitors, share_token \in ShareTokens :
          LET found == ActiveLink(share_token)
          IN  responses' = Append(responses,
                                  api_response("get_shared_dashboard_data", visitor,
                                               IF found = None \/ is_expired(found[1])
                                               THEN 404 ELSE 200))
    /\ UNCHANGED <<risk_vars, log_vars, now, task, user, resident, link, requests>>

TickShare == Tick /\ UNCHANGED <<risk_vars, log_vars, task, user, resident, link, requests, responses>>

\* a link as create_shareable_link stores it (lines 657-667), with or
\* without an expiry date, active or deactivated in the table
InitShare ==
    /\ RiskIdle /\ LogIdle
    /\ now = 0
    /\ task = None /\ user = None /\ resident = None
    /\ \E is_active \in BOOLEAN, expires_date \in {None, Some(1)} :
          link = Some([share_token |-> "token-of-link",
                       password_hash |-> generate_password_hash("family2024"),
                       expires_date |-> expires_date,
                       is_active |-> is_active,
                       access_count |-> 0])
    /\ requests = <<>> /\ responses = <<>>

NextShare ==
    \/ authenticate_share_access
    \/ get_shared_dashboard_data
    \/ TickShare

ShareSpec == InitShare /\ [][NextShare]_vars

\* the k-th response is the given handler answering with success
Answered(k, handler) ==
    responses[k].handler = handler /\ responses[k].status_code = 200

\* C30: the dashboard data is returned only for a link that is active and
\* not expired, and only to a requester who has authenticated successfully
\* with the password of the link before; an inactive or expired link never
\* serves data, and a failed authentication never increments access_count.
C30_DashboardOnlyAfterAuthentication ==
    link # None =>
        /\ \A k \in 1..Len(responses) :
              Answered(k, "get_shared_dashboard_data") =>
                  /\ link[1].is_active
                  /\ link[1].expires_date = None
                        \/ responses[k].timestamp <= link[1].expires_date[1]
                  /\ \E j \in 1..(k - 1) :
                        /\ Answered(j, "authenticate_share_access")
                        /\ responses[j].request = responses[k].request
        /\ link[1].access_count
              = Cardinality({k \in 1..Len(responses) :
                                Answered(k, "authenticate_share_access")})

====
